---- MODULE Spec2Model ----
(***************************************************************************)
(* ViceClient (src/src/protocol/client.ts): the binary monitor client.     *)
(* The model covers the request/response correlator (sendCommand,          *)
(* handleResponse, the response timer, the write callback), the socket     *)
(* lifecycle (connect, its timeout, disconnect and the sockets' connect,   *)
(* error and close events), the frame codec (the packet sendCommand        *)
(* builds, handleData) and the high-level commands.                        *)
(*                                                                         *)
(* A call is one invocation of sendCommand: the promise it returns plus    *)
(* the closures it leaves behind (the pending entry, the write callback,   *)
(* the response timer).  Calls live in numbered slots; a slot is reused    *)
(* once nothing refers to its call any more.                               *)
(***************************************************************************)
EXTENDS Integers, Sequences, FiniteSets, TLC

\* ---------------------------------------------------------------- bounds
\* Calls whose closures may be alive at the same time.
MaxCalls == 2
\* Spec: sendCommand invocations per run.
MaxSends == 2
\* Spec: connect() invocations that create a socket.
MaxSockets == 1
\* SpecStray: sendCommand invocations.
MaxStraySends == 2
\* SpecStray: the greatest request id the peer puts into a frame.
MaxStrayId == 2
\* SpecConn: connect() invocations that create a socket.
MaxConnects == 2
\* SpecConn: disconnect() invocations that wait for a close event.
MaxDisconnects == 1
\* SpecConn: sendCommand invocations that register a call.
MaxConnSends == 1
\* SpecApi: operations that pass validation and register a call.
MaxApiCalls == 1
\* SpecWrap: request ids whose calls the caller leaves outstanding.
MaxLinger == 2
\* SpecCodec: frames the peer sends.
MaxFrames == 3
\* SpecCodec: sendCommand invocations.
MaxCodecSends == 2
\* SpecOps: operations that register a call.
MaxOps == 2
\* SpecRead: readMemory invocations that register a call.
MaxReads == 2
\* SpecWrite: writeMemory invocations that register a call.
MaxWrites == 2
\* SpecCheckpoint: checkpoint operations that register a call.
MaxCheckpointOps == 2
\* SpecReconnect: sendCommand invocations, and frames the peer sends on
\* one connection.
MaxReconnectSends == 2
MaxReconnectFrames == 2
\* SpecRun: continue() / step() invocations, and frames the peer sends.
MaxRunOps == 1
MaxRunFrames == 3

\* ------------------------------------------------------ program constants
\* nextRequestId: (requestId + 1) & 0xff
IdMask == 255
\* handleResponse: response.requestId === 0xff
AsyncId == 255
\* ResponseType
ResponseTypeInvalid == 0
MemoryGet == 1
CheckpointInfo == 17
RegisterInfo == 49
Stopped == 98
Resumed == 99
\* ErrorCode
Ok == 0
ObjectMissing == 1
\* types.ts: the start byte of every packet and the API version byte
STX == 2
API_VERSION == 2
\* The length of a response header: STX(1) + API(1) + bodyLength(4) +
\* responseType(1) + errorCode(1) + requestId(1)
HeaderLength == 9
\* Command, as far as the modelled operations use it.  Continue and Step
\* are not members of the enum (see Continue below).
Command ==
  [MemoryGet |-> 1, MemorySet |-> 2, CheckpointSet |-> 18,
   CheckpointDelete |-> 19, CheckpointToggle |-> 21, RegistersGet |-> 49,
   Reset |-> 204]
\* MemorySpace.MainCPU
MainCPU == 0
\* CheckpointOp
CheckpointOp == [Exec |-> 1, Load |-> 2, Store |-> 4]
\* sendCommand's expectedResponseType parameter left out (undefined)
Undefined == -1
\* The highest address of the 16-bit address space (0xffff)
MaxAddress == 65535
\* connect(host = "127.0.0.1", port = 6502); a host left out is written
\* "undefined", a port left out Undefined.
DefaultHost == "127.0.0.1"
DefaultPort == 6502
HostUndefined == "undefined"

VARIABLES
  socket,           \* this.socket: 0 is null, otherwise the socket's number
  sockets,          \* every Socket created so far: its lifecycle position
  connectCalls,     \* per socket, the connect() that created it: its
                    \* arguments, its timeout and its promise
  disconnectCalls,  \* per socket, the disconnect() promises waiting for
                    \* its close event and those resolved by it
  state,            \* this.state: connected, host, port, running
  requestId,        \* this.requestId
  pendingRequests,  \* this.pendingRequests, in Map insertion order
  calls,            \* the sendCommand invocations (see above)
  sendOrder,        \* the slots of the calls, oldest sendCommand first
  checkpoints,      \* this.checkpoints, in Map insertion order
  responseBuffer,   \* this.responseBuffer, a sequence of bytes
  wire,             \* the bytes the peer has sent that no data event has
                    \* delivered yet
  peer,             \* what the peer has put on the wire: the frames, in
                    \* order, and the garbage bytes before them
  dispatched,       \* the frames handleData has passed to handleResponse
  log               \* what the last operation did, in program order: the
                    \* steps of a handleResponse run, the error thrown by
                    \* a call that was refused, the packet written by
                    \* sendCommand and the bytes returned by readMemory
                    \* (both in the body of the entry's frame)

\* The receiving side of the byte stream.
codec == <<responseBuffer, wire, peer, dispatched>>

vars ==
  <<socket, sockets, connectCalls, disconnectCalls, state, requestId,
    pendingRequests, calls, sendOrder, checkpoints, codec, log>>

Slots == 1..MaxCalls
SocketIds == 1..MaxConnects

\* ------------------------------------------------------------------ Map
\* pendingRequests is a JavaScript Map: iteration follows the order in which
\* keys were first inserted, and set() on a present key replaces the value
\* in place.
MapHas(m, id) == \E i \in DOMAIN m : m[i].id = id

MapGet(m, id) == m[CHOOSE i \in DOMAIN m : m[i].id = id]

\* A delete that removes nothing.
MapDeleteNothing(m, id) == m

MapDelete(m, id) == SelectSeq(m, LAMBDA e : e.id # id)

MapSet(m, e) ==
  IF MapHas(m, e.id)
    THEN [i \in DOMAIN m |-> IF m[i].id = e.id THEN e ELSE m[i]]
    ELSE Append(m, e)

\* ---------------------------------------------------------------- calls
Unsettled == [how |-> "pending", code |-> "", errorCode |-> Ok]

\* What the caller of sendCommand does after its await: the operation it
\* belongs to and the arguments that operation still needs.
Continuation(op, startAddress, endAddress, type) ==
  [op |-> op, startAddress |-> startAddress, endAddress |-> endAddress,
   type |-> type, checkpointId |-> 0, enabled |-> TRUE]

\* The caller does nothing with the outcome.
NoContinuation == Continuation("none", 0, 0, "")

\* body: response.body of the frame the call resolved with.
NoCall ==
  [id |-> Undefined, expected |-> Undefined, timer |-> "none", write |-> "none",
   invoked |-> 0, result |-> Unsettled, body |-> <<>>, then |-> NoContinuation]

\* makeError: the error object, by its code; VICE_ERROR_<n> carries the
\* status n of the frame.
makeError(code, errorCode) ==
  [how |-> "rejected", code |-> code, errorCode |-> errorCode]

\* What a promise resolved with a frame holds (the frame itself is in the
\* log of the handleResponse run that resolved it).
Resolved == [how |-> "resolved", code |-> "", errorCode |-> Ok]

\* One invocation of call c's resolve or reject with outcome r.  A promise
\* keeps its first settlement; later invocations are counted and ignored.
\* A settled call waits for no response type any more.
Invoke(cs, c, r) ==
  [cs EXCEPT ![c].invoked = @ + 1,
             ![c].result = IF cs[c].invoked = 0 THEN r ELSE @,
             ![c].expected = Undefined]

\* Nothing refers to the call of slot c any more: its promise is settled
\* and its caller has gone on, its timer has run and its write callback has
\* been called.
Finished(c) ==
  /\ calls[c].timer = "fired"
  /\ calls[c].write = "done"
  /\ calls[c].invoked = 1
  /\ calls[c].then = NoContinuation

Reusable(c) == calls[c] = NoCall \/ Finished(c)

\* ------------------------------------------------------------------ log
\* The frame field of a log entry that carries no frame.
NoFrame ==
  [responseType |-> Ok, errorCode |-> Ok, requestId |-> Ok, body |-> <<>>]

LogEntry(ev, call, frame) == [ev |-> ev, call |-> call, frame |-> frame]

\* A call refused with makeError(code, ...) before it did anything.
Throw(code) == <<LogEntry(code, 0, NoFrame)>>

\* --------------------------------------------------------------- Init
NoConnect ==
  [host |-> "", port |-> 0, timeout |-> "none", result |-> "none"]

NoDisconnect == [waiting |-> 0, resolved |-> 0]

\* The peer has sent nothing.
NoPeer == [frames |-> <<>>, garbage |-> <<>>]

Init ==
  /\ socket = 0
  /\ sockets = [s \in SocketIds |-> "none"]
  /\ connectCalls = [s \in SocketIds |-> NoConnect]
  /\ disconnectCalls = [s \in SocketIds |-> NoDisconnect]
  /\ state = [connected |-> FALSE, host |-> "", port |-> 0, running |-> TRUE]
  /\ requestId = 0
  /\ pendingRequests = <<>>
  /\ calls = [c \in Slots |-> NoCall]
  /\ sendOrder = <<>>
  /\ checkpoints = <<>>
  /\ responseBuffer = <<>>
  /\ wire = <<>>
  /\ peer = NoPeer
  /\ dispatched = <<>>
  /\ log = <<>>

\* ------------------------------------------------------------- connect
\* A socket that has been created and neither destroyed nor closed.
IsLive(s) == sockets[s] \in {"connecting", "open"}

\* socket.destroy() on the socket this.socket refers to (this.socket?.):
\* the socket stops; its close event follows later.
DestroyHeld(ss) ==
  IF socket # 0 /\ ss[socket] \in {"connecting", "open"}
    THEN [ss EXCEPT ![socket] = "destroyed"]
    ELSE ss

\* reject / resolve of a connect() promise: the first settlement stays.
SettleConnect(cc, s, r) ==
  [cc EXCEPT ![s].result = IF @ = "pending" THEN r ELSE @]

\* clearTimeout(timeout) of the connect() that created socket s.
ClearTimeout(cc, s) ==
  [cc EXCEPT ![s].timeout = IF @ = "armed" THEN "cleared" ELSE @]

\* connect(host, port): refused when a socket is held, otherwise creates
\* the socket, arms the timeout and starts connecting.
Connect(host, port) ==
  IF socket # 0
    THEN /\ log' = Throw("ALREADY_CONNECTED")
         /\ UNCHANGED <<codec, checkpoints, socket, sockets,
                        connectCalls, disconnectCalls, state, requestId,
                        pendingRequests, calls, sendOrder>>
    ELSE /\ \E s \in SocketIds :
              /\ sockets[s] = "none"
              /\ \A t \in SocketIds : t < s => sockets[t] # "none"
              /\ socket' = s
              /\ sockets' = [sockets EXCEPT ![s] = "connecting"]
              /\ connectCalls' = [connectCalls EXCEPT ![s] =
                   [host |-> IF host = HostUndefined THEN DefaultHost ELSE host,
                    port |-> IF port = Undefined THEN DefaultPort ELSE port,
                    timeout |-> "armed", result |-> "pending"]]
         /\ log' = <<>>
         /\ UNCHANGED <<codec, checkpoints, disconnectCalls, state,
                        requestId, pendingRequests, calls, sendOrder>>

\* The connect timeout (setTimeout, 5 s) of the connect() that created s.
ConnectTimeout(s) ==
  /\ connectCalls[s].timeout = "armed"
  /\ sockets' = DestroyHeld(sockets)
  /\ socket' = 0
  /\ connectCalls' = SettleConnect([connectCalls EXCEPT ![s].timeout = "fired"],
                                   s, "CONNECTION_TIMEOUT")
  /\ log' = <<>>
  /\ UNCHANGED <<codec, checkpoints, disconnectCalls, state,
                 requestId, pendingRequests, calls, sendOrder>>

\* socket.on("connect")
OnConnect(s) ==
  /\ sockets[s] = "connecting"
  /\ sockets' = [sockets EXCEPT ![s] = "open"]
  /\ connectCalls' = SettleConnect(ClearTimeout(connectCalls, s), s, "resolved")
  /\ state' = [connected |-> TRUE, host |-> connectCalls[s].host,
               port |-> connectCalls[s].port, running |-> TRUE]
  /\ log' = <<>>
  /\ UNCHANGED <<codec, checkpoints, socket, disconnectCalls,
                 requestId, pendingRequests, calls, sendOrder>>

\* An error handler that releases the handle and leaves connected alone.
OnErrorKeepingConnected(s) ==
  /\ IsLive(s)
  /\ sockets' = [DestroyHeld(sockets) EXCEPT ![s] = "destroyed"]
  /\ socket' = 0
  /\ connectCalls' =
       SettleConnect(ClearTimeout(connectCalls, s), s, "CONNECTION_FAILED")
  /\ log' = <<>>
  /\ UNCHANGED <<codec, checkpoints, disconnectCalls, state,
                 requestId, pendingRequests, calls, sendOrder>>

\* socket.on("error"): a socket that reports an error has stopped (the
\* runtime destroys it); its close event follows later.
OnError(s) ==
  /\ IsLive(s)
  /\ sockets' = [DestroyHeld(sockets) EXCEPT ![s] = "destroyed"]
  /\ socket' = 0
  /\ state' = [state EXCEPT !.connected = FALSE]
  /\ connectCalls' =
       SettleConnect(ClearTimeout(connectCalls, s), s, "CONNECTION_FAILED")
  /\ log' = <<>>
  /\ UNCHANGED <<codec, checkpoints, disconnectCalls, requestId,
                 pendingRequests, calls, sendOrder>>

\* Rejecting every entry of the table, in iteration order.
RECURSIVE RejectAll(_, _, _)
RejectAll(cs, m, code) ==
  IF m = <<>> THEN cs
  ELSE RejectAll(Invoke(cs, Head(m).call, makeError(code, Ok)), Tail(m), code)

\* socket.on("close"), then the once("close") listeners of disconnect():
\* the peer closed an open socket, or a destroyed socket finished closing.
OnClose(s) ==
  /\ sockets[s] \in {"open", "destroyed"}
  /\ sockets' = [sockets EXCEPT ![s] = "closed"]
  /\ state' = [state EXCEPT !.connected = FALSE]
  /\ socket' = 0
  /\ calls' = RejectAll(calls, pendingRequests, "CONNECTION_CLOSED")
  /\ pendingRequests' = <<>>
  /\ disconnectCalls' = [disconnectCalls EXCEPT ![s] =
       [waiting |-> 0, resolved |-> @.resolved + @.waiting]]
  /\ log' = <<>>
  /\ UNCHANGED <<codec, checkpoints, connectCalls, requestId,
                 sendOrder>>

\* ---------------------------------------------------------- disconnect
\* A disconnect() that resolves without waiting for the close event.
DisconnectWithoutWaiting ==
  IF socket = 0
    THEN /\ log' = <<LogEntry("return", 0, NoFrame)>>
         /\ UNCHANGED <<codec, checkpoints, socket, sockets,
                        connectCalls, disconnectCalls, state, requestId,
                        pendingRequests, calls, sendOrder>>
    ELSE /\ disconnectCalls' =
              [disconnectCalls EXCEPT ![socket].resolved = @ + 1]
         /\ log' = <<>>
         /\ UNCHANGED <<codec, checkpoints, socket, sockets,
                        connectCalls, state, requestId, pendingRequests, calls,
                        sendOrder>>

\* disconnect(): returns at once when no socket is held, otherwise waits
\* for the close event of the socket it ends.
Disconnect ==
  IF socket = 0
    THEN /\ log' = <<LogEntry("return", 0, NoFrame)>>
         /\ UNCHANGED <<codec, checkpoints, socket, sockets,
                        connectCalls, disconnectCalls, state, requestId,
                        pendingRequests, calls, sendOrder>>
    ELSE /\ disconnectCalls' =
              [disconnectCalls EXCEPT ![socket].waiting = @ + 1]
         /\ log' = <<>>
         /\ UNCHANGED <<codec, checkpoints, socket, sockets,
                        connectCalls, state, requestId, pendingRequests, calls,
                        sendOrder>>

\* --------------------------------------------------------------- Buffer
\* A Buffer is a sequence of bytes; offsets are counted from 0 as in the
\* code.  buffer[i] = v stores v & 0xff.
Byte(v) == v % 256

\* writeUInt16LE(v), for v in 0..0xffff
writeUInt16LE(v) == <<v % 256, v \div 256>>

\* writeUInt32LE(v), for v in 0..0xffffffff
writeUInt32LE(v) ==
  <<v % 256, (v \div 256) % 256, (v \div 65536) % 256, v \div 16777216>>

readUInt16LE(buffer, offset) ==
  buffer[offset + 1] + 256 * buffer[offset + 2]

readUInt32LE(buffer, offset) ==
  buffer[offset + 1] + 256 * buffer[offset + 2]
    + 65536 * buffer[offset + 3] + 16777216 * buffer[offset + 4]

\* buffer.subarray(start, end): the bytes at offsets start..end-1, the
\* offsets clamped to the buffer.
subarray(buffer, start, end) ==
  SubSeq(buffer, start + 1, IF end < Len(buffer) THEN end ELSE Len(buffer))

\* Buffer.alloc(n)
alloc(n) == [i \in 1..n |-> 0]

\* --------------------------------------------------------- sendCommand
\* An allocator that passes over the id of unsolicited frames.
nextRequestIdSkippingSentinel ==
  IF (requestId + 1) % (IdMask + 1) = AsyncId THEN 0
  ELSE (requestId + 1) % (IdMask + 1)

nextRequestId == (requestId + 1) % (IdMask + 1)

\* A sendCommand that checks the handle only.
NotConnectedByHandleOnly == socket = 0

\* sendCommand's check: !this.socket || !this.state.connected
NotConnected == socket = 0 \/ ~state.connected

\* A packet laid out like a response: the command where the response type
\* is, the request id behind a status byte.
PacketInResponseLayout(command, id, body) ==
  <<STX, API_VERSION>> \o writeUInt32LE(Len(body))
    \o <<Byte(command), Ok, id>> \o body

\* The packet sendCommand builds: STX(1) + API(1) + Length(4) +
\* RequestID(1) + Command(1) + Body.
Packet(command, id, body) ==
  <<STX, API_VERSION>> \o writeUInt32LE(Len(body)) \o <<id, Byte(command)>>
    \o body

\* await this.sendCommand(command, body, expectedResponseType) followed by
\* the caller's code then: sendCommand is refused when not connected;
\* otherwise it takes the next id, registers the pending entry, hands the
\* packet to socket.write and arms the timer.
\* A sendCommand that hands the packet to the socket and leaves the table
\* as it is.
AwaitSendCommandUnregistered(command, body, expectedResponseType, then) ==
  IF NotConnected
    THEN /\ log' = Throw("NOT_CONNECTED")
         /\ UNCHANGED <<codec, checkpoints, socket, sockets,
                        connectCalls, disconnectCalls, state, requestId,
                        pendingRequests, calls, sendOrder>>
    ELSE /\ \E c \in Slots :
              /\ Reusable(c)
              /\ \A d \in Slots : d < c => ~Reusable(d)
              /\ calls' = [calls EXCEPT ![c] =
                   [id |-> nextRequestId, expected |-> expectedResponseType,
                    timer |-> "armed", write |-> "inflight",
                    invoked |-> 0, result |-> Unsettled,
                    body |-> <<>>, then |-> then]]
              /\ sendOrder' = Append(SelectSeq(sendOrder, LAMBDA d : d # c), c)
         /\ requestId' = nextRequestId
         /\ log' = <<LogEntry("write", 0,
                      [NoFrame EXCEPT
                         !.body = Packet(command, nextRequestId, body)])>>
         /\ UNCHANGED <<codec, checkpoints, socket, sockets, connectCalls,
                        disconnectCalls, state, pendingRequests>>

AwaitSendCommand(command, body, expectedResponseType, then) ==
  IF NotConnected
    THEN /\ log' = Throw("NOT_CONNECTED")
         /\ UNCHANGED <<codec, checkpoints, socket, sockets,
                        connectCalls, disconnectCalls, state, requestId,
                        pendingRequests, calls, sendOrder>>
    ELSE /\ \E c \in Slots :
              /\ Reusable(c)
              /\ \A d \in Slots : d < c => ~Reusable(d)
              /\ calls' = [calls EXCEPT ![c] =
                   [id |-> nextRequestId, expected |-> expectedResponseType,
                    timer |-> "armed", write |-> "inflight",
                    invoked |-> 0, result |-> Unsettled,
                    body |-> <<>>, then |-> then]]
              /\ pendingRequests' = MapSet(pendingRequests,
                   [id |-> nextRequestId, call |-> c,
                    expectedResponseType |-> expectedResponseType])
              /\ sendOrder' = Append(SelectSeq(sendOrder, LAMBDA d : d # c), c)
         /\ requestId' = nextRequestId
         /\ log' = <<LogEntry("write", 0,
                      [NoFrame EXCEPT
                         !.body = Packet(command, nextRequestId, body)])>>
         /\ UNCHANGED <<codec, checkpoints, socket, sockets, connectCalls,
                        disconnectCalls, state>>

\* sendCommand on behalf of a caller that does nothing with the outcome:
\* getRegisters() when a RegisterInfo frame is expected, reset() otherwise.
SendCommand(expectedResponseType) ==
  IF expectedResponseType = RegisterInfo
    THEN AwaitSendCommand(Command.RegistersGet, <<MainCPU>>,
                          expectedResponseType, NoContinuation)
    ELSE AwaitSendCommand(Command.Reset, <<0>>, expectedResponseType,
                          NoContinuation)

\* The callback given to socket.write, called once with or without an error.
WriteCallback(c, err) ==
  /\ calls[c].write = "inflight"
  /\ IF err
       THEN /\ pendingRequests' = MapDelete(pendingRequests, calls[c].id)
            /\ calls' = Invoke([calls EXCEPT ![c].write = "done"], c,
                               makeError("SEND_FAILED", Ok))
       ELSE /\ calls' = [calls EXCEPT ![c].write = "done"]
            /\ UNCHANGED pendingRequests
  /\ log' = <<>>
  /\ UNCHANGED <<codec, checkpoints, socket, sockets, connectCalls,
                 disconnectCalls, state, requestId, sendOrder>>

\* The response timer of call c (setTimeout, 10 s).
ResponseTimeout(c) ==
  /\ calls[c].timer = "armed"
  /\ IF MapHas(pendingRequests, calls[c].id)
       THEN /\ pendingRequests' = MapDelete(pendingRequests, calls[c].id)
            /\ calls' = Invoke([calls EXCEPT ![c].timer = "fired"], c,
                               makeError("RESPONSE_TIMEOUT", Ok))
       ELSE /\ calls' = [calls EXCEPT ![c].timer = "fired"]
            /\ UNCHANGED pendingRequests
  /\ log' = <<>>
  /\ UNCHANGED <<codec, checkpoints, socket, sockets, connectCalls,
                 disconnectCalls, state, requestId, sendOrder>>

\* ------------------------------------------------------ handleResponse
\* The state-change part: running, then the event sink (this.onStopped?.(),
\* this.onResumed?.(): called when one is installed).
EventLog(response) ==
  IF response.responseType = Stopped
    THEN <<LogEntry("running=false", 0, NoFrame),
           LogEntry("onStopped", 0, response)>>
  ELSE IF response.responseType = Resumed
    THEN <<LogEntry("running=true", 0, NoFrame),
           LogEntry("onResumed", 0, response)>>
  ELSE <<>>

\* A handleResponse that has no branch for Resumed.
EventRunningWithoutResumed(response) ==
  IF response.responseType = Stopped THEN FALSE ELSE state.running

EventRunning(response) ==
  IF response.responseType = Stopped THEN FALSE
  ELSE IF response.responseType = Resumed THEN TRUE
  ELSE state.running

\* pending.resolve(response): the promise holds the frame.
Resolve(cs, c, response) ==
  [Invoke(cs, c, Resolved) EXCEPT
     ![c].body = IF cs[c].invoked = 0 THEN response.body ELSE @]

\* A handleResponse that resolves whatever the frame's status.
SettleIgnoringStatus(cs, c, response) == Resolve(cs, c, response)

\* Settling the call of a matched entry with the frame.
Settle(cs, c, response) ==
  IF response.errorCode # Ok
    THEN Invoke(cs, c, makeError("VICE_ERROR", response.errorCode))
    ELSE Resolve(cs, c, response)

SettleLog(c, response) ==
  IF response.errorCode # Ok
    THEN LogEntry("reject", c, response)
    ELSE LogEntry("resolve", c, response)

\* The positions of the entries an async frame could answer.
AsyncMatches(response) ==
  {i \in DOMAIN pendingRequests :
     pendingRequests[i].expectedResponseType = response.responseType}

\* A lookup that hands a frame nobody waits for to the oldest entry.
MatchedOrOldest(response) ==
  IF response.requestId = AsyncId
    THEN IF AsyncMatches(response) = {}
           THEN {pendingRequests[i] : i \in DOMAIN pendingRequests \cap {1}}
         ELSE {pendingRequests[CHOOSE i \in AsyncMatches(response) :
                 \A j \in AsyncMatches(response) : i <= j]}
  ELSE IF MapHas(pendingRequests, response.requestId)
    THEN {MapGet(pendingRequests, response.requestId)}
  ELSE {pendingRequests[i] : i \in DOMAIN pendingRequests \cap {1}}

\* The entry handleResponse matches the frame to, as a set (empty: none).
Matched(response) ==
  IF response.requestId = AsyncId
    THEN IF AsyncMatches(response) = {} THEN {}
         ELSE {pendingRequests[CHOOSE i \in AsyncMatches(response) :
                 \A j \in AsyncMatches(response) : i <= j]}
  ELSE IF MapHas(pendingRequests, response.requestId)
    THEN {MapGet(pendingRequests, response.requestId)}
  ELSE {}

HandleResponse(response) ==
  /\ \E s \in SocketIds : sockets[s] = "open"
  /\ state' = [state EXCEPT !.running = EventRunning(response)]
  /\ IF Matched(response) = {}
       THEN /\ log' = EventLog(response)
            /\ UNCHANGED <<pendingRequests, calls>>
       ELSE LET pending == CHOOSE e \in Matched(response) : TRUE IN
            /\ pendingRequests' = MapDelete(pendingRequests, pending.id)
            /\ calls' = Settle(calls, pending.call, response)
            /\ log' = EventLog(response)
                        \o <<LogEntry("delete", pending.call, NoFrame),
                             SettleLog(pending.call, response)>>
  /\ UNCHANGED <<codec, checkpoints, socket, sockets, connectCalls,
                 disconnectCalls, requestId, sendOrder>>

\* ---------------------------------------------------------- handleData
\* handleResponse as handleData calls it, on the client state st (state,
\* pendingRequests, calls, log, dispatched) the loop has produced so far.
RunningAfter(running, response) ==
  IF response.responseType = Stopped THEN FALSE
  ELSE IF response.responseType = Resumed THEN TRUE
  ELSE running

MatchedIn(m, response) ==
  IF response.requestId = AsyncId
    THEN LET found ==
               {i \in DOMAIN m :
                  m[i].expectedResponseType = response.responseType}
         IN IF found = {} THEN {}
            ELSE {m[CHOOSE i \in found : \A j \in found : i <= j]}
  ELSE IF MapHas(m, response.requestId)
    THEN {MapGet(m, response.requestId)}
  ELSE {}

handleResponse(st, response) ==
  LET matched == MatchedIn(st.pendingRequests, response)
      pending == CHOOSE e \in matched : TRUE
  IN
  [state |-> [st.state EXCEPT !.running = RunningAfter(@, response)],
   pendingRequests |->
     IF matched = {} THEN st.pendingRequests
     ELSE MapDelete(st.pendingRequests, pending.id),
   calls |->
     IF matched = {} THEN st.calls
     ELSE Settle(st.calls, pending.call, response),
   dispatched |-> Append(st.dispatched, response),
   log |->
     st.log \o <<LogEntry("handleResponse", 0, response)>>
       \o EventLog(response)
       \o (IF matched = {} THEN <<>>
           ELSE <<LogEntry("delete", pending.call, NoFrame),
                  SettleLog(pending.call, response)>>)]

RECURSIVE ProcessPackets(_, _)

\* A loop that takes every leading byte for the start of a header.
ProcessPacketsWithoutResync(st, buffer) ==
  IF Len(buffer) < HeaderLength
       \/ Len(buffer) < HeaderLength + readUInt32LE(buffer, 2)
    THEN [st |-> st, responseBuffer |-> buffer]
    ELSE ProcessPackets(
           handleResponse(st,
             [responseType |-> buffer[7], errorCode |-> buffer[8],
              requestId |-> buffer[9],
              body |-> subarray(buffer, HeaderLength,
                         HeaderLength + readUInt32LE(buffer, 2))]),
           subarray(buffer, HeaderLength + readUInt32LE(buffer, 2),
                    Len(buffer)))

\* A loop that returns after the first packet it has handled.
ProcessPacketsOnce(st, buffer) ==
  IF Len(buffer) < HeaderLength \/ buffer[1] # STX
       \/ Len(buffer) < HeaderLength + readUInt32LE(buffer, 2)
    THEN [st |-> st, responseBuffer |-> buffer]
    ELSE [st |-> handleResponse(st,
                   [responseType |-> buffer[7], errorCode |-> buffer[8],
                    requestId |-> buffer[9],
                    body |-> subarray(buffer, HeaderLength,
                               HeaderLength + readUInt32LE(buffer, 2))]),
          responseBuffer |->
            subarray(buffer, HeaderLength + readUInt32LE(buffer, 2),
                     Len(buffer))]

\* A loop that hands on a packet as soon as its header has arrived.
ProcessPacketsWithoutWaiting(st, buffer) ==
  IF Len(buffer) < HeaderLength
    THEN [st |-> st, responseBuffer |-> buffer]
  ELSE IF buffer[1] # STX
    THEN ProcessPackets(
           [st EXCEPT !.log =
              @ \o <<LogEntry("skip", 0,
                       [NoFrame EXCEPT !.body = <<buffer[1]>>])>>],
           subarray(buffer, 1, Len(buffer)))
  ELSE ProcessPackets(
         handleResponse(st,
           [responseType |-> buffer[7], errorCode |-> buffer[8],
            requestId |-> buffer[9],
            body |-> subarray(buffer, HeaderLength,
                       HeaderLength + readUInt32LE(buffer, 2))]),
         subarray(buffer, HeaderLength + readUInt32LE(buffer, 2),
                  Len(buffer)))

\* The loop of handleData on the bytes buffered: a leading byte other than
\* STX is skipped; a packet whose body has not arrived in full is left in
\* the buffer; a complete packet is cut off the buffer and handled.
ProcessPackets(st, buffer) ==
  IF Len(buffer) < HeaderLength
    THEN [st |-> st, responseBuffer |-> buffer]
  ELSE IF buffer[1] # STX
    THEN ProcessPackets(
           [st EXCEPT !.log =
              @ \o <<LogEntry("skip", 0,
                       [NoFrame EXCEPT !.body = <<buffer[1]>>])>>],
           subarray(buffer, 1, Len(buffer)))
  ELSE LET bodyLength == readUInt32LE(buffer, 2)
           totalLength == HeaderLength + bodyLength
           response ==
             [responseType |-> buffer[7], errorCode |-> buffer[8],
              requestId |-> buffer[9],
              body |-> subarray(buffer, HeaderLength, totalLength)]
       IN IF Len(buffer) < totalLength
            THEN [st |-> st, responseBuffer |-> buffer]
            ELSE ProcessPackets(handleResponse(st, response),
                                subarray(buffer, totalLength, Len(buffer)))

\* A handleData that puts each chunk in front of the bytes buffered.
HandleDataPrepending(data) ==
  LET run ==
        ProcessPackets(
          [state |-> state, pendingRequests |-> pendingRequests,
           calls |-> calls, dispatched |-> dispatched,
           log |-> <<LogEntry("data", 0, [NoFrame EXCEPT !.body = data])>>],
          data \o responseBuffer)
  IN
  /\ \E s \in SocketIds : sockets[s] = "open"
  /\ responseBuffer' = run.responseBuffer
  /\ state' = run.st.state
  /\ pendingRequests' = run.st.pendingRequests
  /\ calls' = run.st.calls
  /\ dispatched' = run.st.dispatched
  /\ log' = run.st.log
  /\ UNCHANGED <<checkpoints, socket, sockets, connectCalls, disconnectCalls,
                 requestId, sendOrder>>

\* A handleData that parses each chunk on its own.
HandleDataForgettingBuffer(data) ==
  LET run ==
        ProcessPackets(
          [state |-> state, pendingRequests |-> pendingRequests,
           calls |-> calls, dispatched |-> dispatched,
           log |-> <<LogEntry("data", 0, [NoFrame EXCEPT !.body = data])>>],
          data)
  IN
  /\ \E s \in SocketIds : sockets[s] = "open"
  /\ responseBuffer' = run.responseBuffer
  /\ state' = run.st.state
  /\ pendingRequests' = run.st.pendingRequests
  /\ calls' = run.st.calls
  /\ dispatched' = run.st.dispatched
  /\ log' = run.st.log
  /\ UNCHANGED <<checkpoints, socket, sockets, connectCalls, disconnectCalls,
                 requestId, sendOrder>>

\* socket.on("data"): handleData(data).  The log starts with the chunk
\* received.
HandleData(data) ==
  LET run ==
        ProcessPackets(
          [state |-> state, pendingRequests |-> pendingRequests,
           calls |-> calls, dispatched |-> dispatched,
           log |-> <<LogEntry("data", 0, [NoFrame EXCEPT !.body = data])>>],
          responseBuffer \o data)
  IN
  /\ \E s \in SocketIds : sockets[s] = "open"
  /\ responseBuffer' = run.responseBuffer
  /\ state' = run.st.state
  /\ pendingRequests' = run.st.pendingRequests
  /\ calls' = run.st.calls
  /\ dispatched' = run.st.dispatched
  /\ log' = run.st.log
  /\ UNCHANGED <<checkpoints, socket, sockets, connectCalls, disconnectCalls,
                 requestId, sendOrder>>

\* ------------------------------------------------------------ the peer
\* The bytes of a response frame, in the layout handleData reads.
ResponsePacket(response) ==
  <<STX, API_VERSION>> \o writeUInt32LE(Len(response.body))
    \o <<response.responseType, response.errorCode, response.requestId>>
    \o response.body

\* The peer sends a frame.
PeerSends(response) ==
  /\ wire' = wire \o ResponsePacket(response)
  /\ peer' = [peer EXCEPT !.frames = Append(@, response)]
  /\ log' = <<>>
  /\ UNCHANGED <<responseBuffer, dispatched, checkpoints, socket, sockets,
                 connectCalls, disconnectCalls, state, requestId,
                 pendingRequests, calls, sendOrder>>

\* A byte that belongs to no frame gets on the wire.
PeerGarbage(byte) ==
  /\ wire' = wire \o <<byte>>
  /\ peer' = [peer EXCEPT !.garbage = Append(@, byte)]
  /\ log' = <<>>
  /\ UNCHANGED <<responseBuffer, dispatched, checkpoints, socket, sockets,
                 connectCalls, disconnectCalls, state, requestId,
                 pendingRequests, calls, sendOrder>>

\* The socket delivers the next length bytes of the wire in one data event.
Deliver(length) ==
  /\ length \in 1..Len(wire)
  /\ HandleData(SubSeq(wire, 1, length))
  /\ wire' = SubSeq(wire, length + 1, Len(wire))
  /\ UNCHANGED peer

\* ---------------------------------------------------------------- Spec
\* The caller of Spec connects once per connection, with the default peer,
\* and sends commands while connected; connections end when the peer
\* closes them.
ExpectedTypes == {Undefined, RegisterInfo}

Frames ==
  [responseType : {RegisterInfo, Stopped, Resumed},
   errorCode : {Ok, ObjectMissing},
   requestId : {calls[c].id : c \in {d \in Slots : calls[d] # NoCall}}
                 \cup {AsyncId},
   body : {<<>>}]

Next ==
  \/ socket = 0 /\ sockets[MaxSockets] = "none"
       /\ Connect(HostUndefined, Undefined)
  \/ \E s \in SocketIds : OnConnect(s)
  \/ \E s \in SocketIds : OnClose(s)
  \/ \E e \in ExpectedTypes :
       requestId < MaxSends /\ ~NotConnected /\ SendCommand(e)
  \/ \E c \in Slots, err \in BOOLEAN : WriteCallback(c, err)
  \/ \E c \in Slots : ResponseTimeout(c)
  \/ \E f \in Frames : HandleResponse(f)

Spec == Init /\ [][Next]_vars

\* ------------------------------------------------------------ SpecWrap
\* A long-running caller: it leaves the calls that got a request id in
\* 1..MaxLinger outstanding and awaits every other call before it sends the
\* next one; the socket takes each packet at once and stays open.  The
\* request id counter runs through its whole range and wraps.
CallerAwaits ==
  \A c \in Slots :
    calls[c] = NoCall \/ calls[c].id \in 1..MaxLinger \/ Finished(c)

WritesFlushed == \A c \in Slots : calls[c].write # "inflight"

WrapFrames ==
  [responseType : {RegisterInfo},
   errorCode : {Ok},
   requestId : {calls[c].id : c \in {d \in Slots : calls[d] # NoCall}}
                 \cup {AsyncId},
   body : {<<>>}]

NextWrap ==
  \/ socket = 0 /\ sockets[MaxSockets] = "none"
       /\ Connect(HostUndefined, Undefined)
  \/ \E s \in SocketIds : OnConnect(s)
  \/ \E e \in ExpectedTypes :
       CallerAwaits /\ WritesFlushed /\ ~NotConnected /\ SendCommand(e)
  \/ \E c \in Slots : WriteCallback(c, FALSE)
  \/ \E c \in Slots : WritesFlushed /\ ResponseTimeout(c)
  \/ \E f \in WrapFrames : WritesFlushed /\ HandleResponse(f)

SpecWrap == Init /\ [][NextWrap]_vars

\* ------------------------------------------------------------- SpecIds
\* A long-running caller on two connections, one after the other: it
\* leaves the calls that got the request id 1 outstanding and awaits every
\* other call before it sends the next one; the first connection closes
\* before its second request, the second one stays open.  The peer never
\* answers the requests with id 1 within their response time.  The
\* request id counter runs through its whole range and wraps.
IdsAwaits ==
  \A c \in Slots : calls[c] = NoCall \/ calls[c].id = 1 \/ Finished(c)

IdsFrames ==
  [responseType : {RegisterInfo},
   errorCode : {Ok},
   requestId : {calls[c].id : c \in {d \in Slots : calls[d] # NoCall}} \ {1},
   body : {<<>>}]

NextIds ==
  \/ socket = 0 /\ sockets[2] = "none" /\ Connect(HostUndefined, Undefined)
  \/ \E s \in SocketIds : OnConnect(s)
  \/ \E s \in SocketIds :
       sockets[s] = "open" /\ s = 1 /\ requestId <= 1 /\ OnClose(s)
  \/ /\ IdsAwaits /\ WritesFlushed /\ ~NotConnected
     /\ SendCommand(RegisterInfo)
  \/ \E c \in Slots : WriteCallback(c, FALSE)
  \/ \E c \in Slots :
       WritesFlushed /\ calls[c].id # 1 /\ ResponseTimeout(c)
  \/ \E f \in IdsFrames : WritesFlushed /\ HandleResponse(f)

SpecIds == Init /\ [][NextIds]_vars

\* ------------------------------------------------------------ SpecConn
\* The connection lifecycle under every interleaving of connect(),
\* disconnect(), sendCommand, the connect timeout and the sockets' events.
\* The socket takes each packet at once, the peer answers with plain OK
\* frames, and the run is over before a response timer expires.
ConnectArgs == {<<HostUndefined, Undefined>>, <<"c64.local", 6510>>}

ConnFrames ==
  [responseType : {RegisterInfo},
   errorCode : {Ok},
   requestId : {calls[c].id : c \in {d \in Slots : calls[d] # NoCall}},
   body : {<<>>}]

Disconnects ==
  LET RECURSIVE Sum(_)
      Sum(S) == IF S = {} THEN 0
                ELSE LET s == CHOOSE t \in S : TRUE
                     IN disconnectCalls[s].waiting + disconnectCalls[s].resolved
                          + Sum(S \ {s})
  IN Sum(SocketIds)

NextConn ==
  \/ \E args \in ConnectArgs : Connect(args[1], args[2])
  \/ \E s \in SocketIds : ConnectTimeout(s)
  \/ \E s \in SocketIds : OnConnect(s)
  \/ \E s \in SocketIds : OnError(s)
  \/ \E s \in SocketIds : OnClose(s)
  \/ (socket # 0 => Disconnects < MaxDisconnects) /\ Disconnect
  \/ (~NotConnected => requestId < MaxConnSends /\ WritesFlushed)
       /\ SendCommand(Undefined)
  \/ \E c \in Slots : WriteCallback(c, FALSE)
  \/ \E f \in ConnFrames : WritesFlushed /\ HandleResponse(f)

SpecConn == Init /\ [][NextConn]_vars

\* ----------------------------------------------------------- SpecCodec
\* One connection.  The caller sends its requests (getRegisters), then the
\* peer puts frames on the wire, possibly after one byte of garbage: the
\* answer to the first request, an answer to the second one that reports an
\* error and has a body (the byte STX), and a Stopped event.  The socket
\* delivers the bytes in chunks of any length.
CodecFrames ==
  {[responseType |-> RegisterInfo, errorCode |-> Ok, requestId |-> 1,
    body |-> <<>>],
   [responseType |-> RegisterInfo, errorCode |-> ObjectMissing,
    requestId |-> 2, body |-> <<STX>>],
   [responseType |-> Stopped, errorCode |-> Ok, requestId |-> AsyncId,
    body |-> <<>>]}

GarbageBytes == {STX, 255}

NextCodec ==
  \/ socket = 0 /\ sockets[1] = "none" /\ Connect(HostUndefined, Undefined)
  \/ \E s \in SocketIds : OnConnect(s)
  \/ /\ requestId < MaxCodecSends /\ ~NotConnected /\ WritesFlushed
     /\ SendCommand(RegisterInfo)
  \/ \E c \in Slots : WriteCallback(c, FALSE)
  \/ \E f \in CodecFrames :
       /\ Len(peer.frames) < MaxFrames /\ requestId = MaxCodecSends
       /\ WritesFlushed
       /\ PeerSends(f)
  \/ \E b \in GarbageBytes :
       /\ peer = NoPeer /\ requestId = MaxCodecSends /\ WritesFlushed
       /\ PeerGarbage(b)
  \/ \E length \in 1..Len(wire) : Deliver(length)

SpecCodec == Init /\ [][NextCodec]_vars

\* ------------------------------------------------ high-level commands
\* The validation of each command: the code of the error it throws, "" when
\* the arguments pass.

\* A readMemory that does not compare its two addresses.
readMemoryErrorWithoutOrder(startAddress, endAddress) ==
  IF startAddress < 0 \/ startAddress > MaxAddress THEN "INVALID_ADDRESS"
  ELSE IF endAddress < 0 \/ endAddress > MaxAddress THEN "INVALID_ADDRESS"
  ELSE ""

readMemoryError(startAddress, endAddress) ==
  IF startAddress < 0 \/ startAddress > MaxAddress THEN "INVALID_ADDRESS"
  ELSE IF endAddress < 0 \/ endAddress > MaxAddress THEN "INVALID_ADDRESS"
  ELSE IF startAddress > endAddress THEN "INVALID_RANGE"
  ELSE ""

\* A writeMemory that accepts an empty buffer.
writeMemoryErrorAcceptingEmpty(address, length) ==
  IF address < 0 \/ address > MaxAddress THEN "INVALID_ADDRESS"
  ELSE IF address + length > MaxAddress + 1 THEN "INVALID_RANGE"
  ELSE ""

\* length is dataBuffer.length.
writeMemoryError(address, length) ==
  IF address < 0 \/ address > MaxAddress THEN "INVALID_ADDRESS"
  ELSE IF length = 0 THEN "INVALID_DATA"
  ELSE IF address + length > MaxAddress + 1 THEN "INVALID_RANGE"
  ELSE ""

\* A setBreakpoint that checks nothing.
setBreakpointErrorNone(address) == ""

setBreakpointError(address) ==
  IF address < 0 \/ address > MaxAddress THEN "INVALID_ADDRESS" ELSE ""

setWatchpointError(startAddress, endAddress) ==
  IF startAddress < 0 \/ startAddress > MaxAddress THEN "INVALID_ADDRESS"
  ELSE IF endAddress < 0 \/ endAddress > MaxAddress THEN "INVALID_ADDRESS"
  ELSE IF startAddress > endAddress THEN "INVALID_RANGE"
  ELSE ""

\* Operation op throws err before it does anything else.
Reject(op, err) ==
  /\ log' = <<LogEntry(op, 0, NoFrame)>> \o Throw(err)
  /\ UNCHANGED <<codec, checkpoints, socket, sockets, connectCalls,
                 disconnectCalls, state, requestId, pendingRequests, calls,
                 sendOrder>>

ReadMemory(startAddress, endAddress) ==
  IF readMemoryError(startAddress, endAddress) # ""
    THEN Reject("readMemory", readMemoryError(startAddress, endAddress))
    ELSE AwaitSendCommand(Command.MemoryGet,
           <<0>> \o writeUInt16LE(startAddress) \o <<MainCPU>>
             \o writeUInt16LE(endAddress),
           MemoryGet,
           Continuation("readMemory", startAddress, endAddress, ""))

WriteMemory(address, length) ==
  IF writeMemoryError(address, length) # ""
    THEN Reject("writeMemory", writeMemoryError(address, length))
    ELSE AwaitSendCommand(Command.MemorySet,
           <<0>> \o writeUInt16LE(address) \o <<MainCPU, Byte(length - 1)>>
             \o alloc(length),
           Undefined, Continuation("writeMemory", 0, 0, ""))

SetBreakpoint(address) ==
  IF setBreakpointError(address) # ""
    THEN Reject("setBreakpoint", setBreakpointError(address))
    ELSE AwaitSendCommand(Command.CheckpointSet,
           writeUInt16LE(address) \o writeUInt16LE(address)
             \o <<1, 1, CheckpointOp.Exec, 0>>,
           Undefined, Continuation("setBreakpoint", address, address, "exec"))

\* setWatchpoint tracks a watchpoint of type "both" as "load".
SetWatchpoint(startAddress, endAddress, type) ==
  IF setWatchpointError(startAddress, endAddress) # ""
    THEN Reject("setWatchpoint",
                setWatchpointError(startAddress, endAddress))
    ELSE AwaitSendCommand(Command.CheckpointSet,
           writeUInt16LE(startAddress) \o writeUInt16LE(endAddress)
             \o <<1, 1,
                  IF type = "load" THEN CheckpointOp.Load
                  ELSE IF type = "store" THEN CheckpointOp.Store
                  ELSE CheckpointOp.Load + CheckpointOp.Store,
                  0>>,
           Undefined,
           Continuation("setWatchpoint", startAddress, endAddress,
                        IF type = "store" THEN "store" ELSE "load"))

\* A deleteBreakpoint that refuses an id the checkpoint map does not hold.
DeleteBreakpointKnownOnly(checkpointId) ==
  IF MapHas(checkpoints, checkpointId)
    THEN AwaitSendCommand(Command.CheckpointDelete,
           writeUInt32LE(checkpointId), Undefined,
           [Continuation("deleteBreakpoint", 0, 0, "") EXCEPT
              !.checkpointId = checkpointId])
    ELSE /\ log' = Throw("INVALID_ID")
         /\ UNCHANGED <<codec, checkpoints, socket, sockets,
                        connectCalls, disconnectCalls, state, requestId,
                        pendingRequests, calls, sendOrder>>

\* deleteBreakpoint(checkpointId): no validation.
DeleteBreakpoint(checkpointId) ==
  AwaitSendCommand(Command.CheckpointDelete, writeUInt32LE(checkpointId),
    Undefined,
    [Continuation("deleteBreakpoint", 0, 0, "") EXCEPT
       !.checkpointId = checkpointId])

\* toggleCheckpoint(checkpointId, enabled): no validation.
ToggleCheckpoint(checkpointId, enabled) ==
  AwaitSendCommand(Command.CheckpointToggle,
    writeUInt32LE(checkpointId) \o <<IF enabled THEN 1 ELSE 0>>,
    Undefined,
    [Continuation("toggleCheckpoint", 0, 0, "") EXCEPT
       !.checkpointId = checkpointId, !.enabled = enabled])

\* Command.Continue and Command.Step are not members of the enum the client
\* imports: compiled without type checking the expression is undefined and
\* the command byte 0; an earlier table of the same file has 0x31 and 0x32.
ContinueCodes == {0, 49}

StepCodes == {0, 50}

\* continue()
Continue ==
  \E command \in ContinueCodes :
    AwaitSendCommand(command, <<>>, Undefined,
                     Continuation("continue", 0, 0, ""))

\* step(count, stepOver)
Step(count, stepOver) ==
  \E command \in StepCodes :
    AwaitSendCommand(command,
      <<IF stepOver THEN 1 ELSE 0>> \o writeUInt16LE(count),
      Undefined, Continuation("step", 0, 0, ""))

\* The code after the await throws a RangeError: readUInt32LE(0) of
\* setBreakpoint and setWatchpoint on a body shorter than 4 bytes,
\* readUInt16LE(0) of readMemory on a body shorter than 2 bytes.
ReadThrows(c) ==
  \/ /\ calls[c].then.op \in {"setBreakpoint", "setWatchpoint"}
     /\ Len(calls[c].body) < 4
  \/ /\ calls[c].then.op = "readMemory"
     /\ Len(calls[c].body) < 2

\* readMemory's result: response.body.subarray(2, 2 + dataLength).
readMemoryResult(body) == subarray(body, 2, 2 + readUInt16LE(body, 0))

\* A toggle that tracks the checkpoint it was told about when the map does
\* not hold it.
CheckpointsAfterAwaitCreating(then, body, m) ==
  IF then.op \in {"setBreakpoint", "setWatchpoint"}
    THEN MapSet(m, [id |-> readUInt32LE(body, 0),
                    startAddress |-> then.startAddress,
                    endAddress |-> then.endAddress,
                    enabled |-> TRUE, temporary |-> FALSE,
                    type |-> then.type])
  ELSE IF then.op = "toggleCheckpoint"
    THEN MapSet(m, [id |-> then.checkpointId, startAddress |-> 0,
                    endAddress |-> 0, enabled |-> then.enabled,
                    temporary |-> FALSE, type |-> "exec"])
  ELSE IF then.op = "deleteBreakpoint"
    THEN MapDelete(m, then.checkpointId)
  ELSE m

\* this.checkpoints once the awaited sendCommand of the operation resolved
\* with body: setBreakpoint and setWatchpoint track the checkpoint under
\* the id read from the body, with the options left at their defaults;
\* toggleCheckpoint writes enabled of the entry the map holds, if any;
\* deleteBreakpoint removes the id.
CheckpointsAfterAwait(then, body, m) ==
  IF then.op \in {"setBreakpoint", "setWatchpoint"}
    THEN MapSet(m, [id |-> readUInt32LE(body, 0),
                    startAddress |-> then.startAddress,
                    endAddress |-> then.endAddress,
                    enabled |-> TRUE, temporary |-> FALSE,
                    type |-> then.type])
  ELSE IF then.op = "toggleCheckpoint"
    THEN [i \in DOMAIN m |->
            IF m[i].id = then.checkpointId
              THEN [m[i] EXCEPT !.enabled = then.enabled]
              ELSE m[i]]
  ELSE IF then.op = "deleteBreakpoint"
    THEN MapDelete(m, then.checkpointId)
  ELSE m

\* A caller-side state that no operation flips.
RunningAfterAwaitUnchanged(op, running) == running

\* state.running once the awaited sendCommand of operation op resolved:
\* continue sets it, step clears it, the other operations leave it.
RunningAfterAwait(op, running) ==
  IF op = "continue" THEN TRUE
  ELSE IF op = "step" THEN FALSE
  ELSE running

\* The code after the await, run once the call's promise is settled.  After
\* a rejection the operation rejects in turn.  After a resolution
\* setBreakpoint and setWatchpoint read the checkpoint id from the body and
\* track the checkpoint, with the options left at their defaults;
\* deleteBreakpoint removes the id from the map; continue and step set
\* running; readMemory returns the bytes after the length.
Resume(c) ==
  LET then == calls[c].then
      resolved == calls[c].result = Resolved
      proceeds == resolved /\ ~ReadThrows(c)
  IN
  /\ then # NoContinuation
  /\ calls[c].invoked >= 1
  /\ checkpoints' =
       IF proceeds
         THEN CheckpointsAfterAwait(then, calls[c].body, checkpoints)
         ELSE checkpoints
  /\ state' =
       IF proceeds
         THEN [state EXCEPT !.running = RunningAfterAwait(then.op, @)]
         ELSE state
  /\ calls' = [calls EXCEPT ![c].then = NoContinuation]
  /\ log' =
       IF resolved /\ ReadThrows(c)
         THEN <<LogEntry("RangeError", c, NoFrame)>>
       ELSE IF proceeds /\ then.op = "readMemory"
         THEN <<LogEntry("readMemory returns", c,
                  [NoFrame EXCEPT !.body = readMemoryResult(calls[c].body)])>>
       ELSE <<>>
  /\ UNCHANGED <<codec, socket, sockets, connectCalls,
                 disconnectCalls, requestId, pendingRequests, sendOrder>>

\* ------------------------------------------------------------- SpecApi
\* The high-level commands, called with addresses and lengths on both
\* sides of every limit, before, during and after the one connection the
\* caller opens.  The socket takes each packet at once and the peer answers
\* each request with a frame bearing its id.
Addresses == {-1, 0, MaxAddress, MaxAddress + 1}

Lengths == {0, 1, 2}

WatchTypes == {"store", "both"}

ApiFrames ==
  [responseType : {MemoryGet},
   errorCode : {Ok, ObjectMissing},
   requestId : {calls[c].id : c \in {d \in Slots : calls[d] # NoCall}},
   body : {<<>>, <<1, 0, 0, 0>>}]

\* The caller stops after MaxApiCalls requests have been registered.
ApiBudget(err) == (err = "" /\ ~NotConnected) => requestId < MaxApiCalls

NextApi ==
  \/ socket = 0 /\ sockets[1] = "none" /\ Connect(HostUndefined, Undefined)
  \/ \E s \in SocketIds : OnConnect(s)
  \/ \E s \in SocketIds : OnClose(s)
  \/ \E a, b \in Addresses :
       ApiBudget(readMemoryError(a, b)) /\ WritesFlushed /\ ReadMemory(a, b)
  \/ \E a \in Addresses, n \in Lengths :
       ApiBudget(writeMemoryError(a, n)) /\ WritesFlushed /\ WriteMemory(a, n)
  \/ \E a \in Addresses :
       ApiBudget(setBreakpointError(a)) /\ WritesFlushed /\ SetBreakpoint(a)
  \/ \E a, b \in Addresses, t \in WatchTypes :
       ApiBudget(setWatchpointError(a, b)) /\ WritesFlushed
         /\ SetWatchpoint(a, b, t)
  \/ \E c \in Slots : WriteCallback(c, FALSE)
  \/ \E f \in ApiFrames : WritesFlushed /\ HandleResponse(f)
  \/ \E c \in Slots : Resume(c)

SpecApi == Init /\ [][NextApi]_vars

\* ------------------------------------------------------------- SpecOps
\* One connection on which the caller runs valid operations: a breakpoint,
\* a watchpoint, deletions of checkpoint ids, continue and step.  The peer
\* answers a pending request with a frame bearing its id, with status Ok or
\* ObjectMissing, and sends Stopped and Resumed events; calls time out and
\* the connection may close.
CheckpointIds == {1, 2}

\* The memory the peer reads from: the byte at address a.
Memory(a) == (a + 7) % 256

\* The body of a MemoryGet response: length(2) + data(N).  The length
\* field holds 16 bits.
MemoryGetBody(length, data) == writeUInt16LE(length % 65536) \o data

\* The bodies the peer may answer the request of slot c with: to a read of
\* n addresses no body, the n bytes, or two bytes announced as one; to a
\* checkpoint set the checkpoint id 1.
AckBodies(c) ==
  LET then == calls[c].then
      n == then.endAddress - then.startAddress + 1
      data == [i \in 1..n |-> Memory(then.startAddress + i - 1)]
  IN IF then.op = "readMemory"
       THEN {<<>>, MemoryGetBody(n, data),
             MemoryGetBody(1, SubSeq(data, 1, 2))}
     ELSE IF then.op \in {"setBreakpoint", "setWatchpoint"}
       THEN {writeUInt32LE(1)}
     ELSE {<<>>}

\* The response type of the answer to the request of slot c.
AckType(c) ==
  IF calls[c].then.op = "readMemory" THEN MemoryGet ELSE CheckpointInfo

\* The answers to the pending requests.
AckFrames ==
  UNION {[responseType : {AckType(pendingRequests[i].call)},
          errorCode : {Ok, ObjectMissing},
          requestId : {pendingRequests[i].id},
          body : AckBodies(pendingRequests[i].call)] :
           i \in DOMAIN pendingRequests}

EventFrames ==
  [responseType : {Stopped, Resumed}, errorCode : {Ok},
   requestId : {AsyncId}, body : {<<>>}]

\* The caller stops after MaxOps requests have been registered.
OpsBudget == ~NotConnected => requestId < MaxOps /\ WritesFlushed

NextOps ==
  \/ socket = 0 /\ sockets[1] = "none" /\ Connect(HostUndefined, Undefined)
  \/ \E s \in SocketIds : OnConnect(s)
  \/ \E s \in SocketIds : OnClose(s)
  \/ OpsBudget /\ SetBreakpoint(0)
  \/ OpsBudget /\ SetWatchpoint(53280, 53280, "store")
  \/ \E id \in CheckpointIds : OpsBudget /\ DeleteBreakpoint(id)
  \/ OpsBudget /\ Continue
  \/ OpsBudget /\ Step(1, FALSE)
  \/ \E c \in Slots : WriteCallback(c, FALSE)
  \/ \E c \in Slots : WritesFlushed /\ ResponseTimeout(c)
  \/ \E f \in AckFrames \cup EventFrames : WritesFlushed /\ HandleResponse(f)
  \/ \E c \in Slots : Resume(c)

SpecOps == Init /\ [][NextOps]_vars

\* ------------------------------------------------------------ SpecRead
\* One connection on which the caller reads memory: 2 bytes, all bytes but
\* the first, and the whole address space.
ReadRanges == {<<0, 1>>, <<1, MaxAddress>>, <<0, MaxAddress>>}

NextRead ==
  \/ socket = 0 /\ sockets[1] = "none" /\ Connect(HostUndefined, Undefined)
  \/ \E s \in SocketIds : OnConnect(s)
  \/ \E r \in ReadRanges :
       /\ ~NotConnected => requestId < MaxReads /\ WritesFlushed
       /\ ReadMemory(r[1], r[2])
  \/ \E c \in Slots : WriteCallback(c, FALSE)
  \/ \E f \in AckFrames : WritesFlushed /\ HandleResponse(f)
  \/ \E c \in Slots : Resume(c)

SpecRead == Init /\ [][NextRead]_vars

\* ----------------------------------------------------------- SpecWrite
\* One connection on which the caller writes one byte, 256 bytes and 257
\* bytes to the bottom of memory and one byte to its top; the peer
\* acknowledges each pending request with a frame bearing its id, and the
\* connection may close.
WriteAddresses == {0, MaxAddress}

WriteLengths == {1, 256, 257}

NextWrite ==
  \/ socket = 0 /\ sockets[1] = "none" /\ Connect(HostUndefined, Undefined)
  \/ \E s \in SocketIds : OnConnect(s)
  \/ \E s \in SocketIds : OnClose(s)
  \/ \E a \in WriteAddresses, n \in WriteLengths :
       /\ writeMemoryError(a, n) = ""
       /\ ~NotConnected => requestId < MaxWrites /\ WritesFlushed
       /\ WriteMemory(a, n)
  \/ \E c \in Slots : WriteCallback(c, FALSE)
  \/ \E f \in AckFrames : WritesFlushed /\ HandleResponse(f)
  \/ \E c \in Slots : Resume(c)

SpecWrite == Init /\ [][NextWrite]_vars

\* ------------------------------------------------------------- SpecRun
\* One connection on which the caller runs continue() and step() and the
\* peer puts on the wire the acknowledgement of a pending request and
\* Stopped and Resumed events, in any order; the socket delivers the bytes
\* in chunks of any length.  The code after an await is a microtask: it
\* runs before the next event of the socket is handled.
RunFrames ==
  [responseType : {ResponseTypeInvalid}, errorCode : {Ok},
   requestId : {pendingRequests[i].id : i \in DOMAIN pendingRequests},
   body : {<<>>}]
    \cup EventFrames

\* A settled call whose code after the await has not run yet.
MicrotaskQueued ==
  \E c \in Slots : calls[c].then # NoContinuation /\ calls[c].invoked >= 1

NextRun ==
  \/ socket = 0 /\ sockets[1] = "none" /\ Connect(HostUndefined, Undefined)
  \/ \E s \in SocketIds : OnConnect(s)
  \/ /\ ~NotConnected /\ requestId < MaxRunOps /\ WritesFlushed
     /\ ~MicrotaskQueued
     /\ Continue
  \/ /\ ~NotConnected /\ requestId < MaxRunOps /\ WritesFlushed
     /\ ~MicrotaskQueued
     /\ Step(1, FALSE)
  \/ \E c \in Slots : WriteCallback(c, FALSE)
  \/ \E f \in RunFrames :
       /\ Len(peer.frames) < MaxRunFrames /\ WritesFlushed /\ ~NotConnected
       /\ PeerSends(f)
  \/ \E n \in 1..Len(wire) : ~MicrotaskQueued /\ Deliver(n)
  \/ \E c \in Slots : Resume(c)

SpecRun == Init /\ [][NextRun]_vars

\* ------------------------------------------------------ SpecCheckpoint
\* One connection on which the caller sets a breakpoint and toggles and
\* deletes checkpoint ids.  The peer answers a pending request with a frame
\* bearing its id, with status Ok or ObjectMissing (a set is answered with
\* checkpoint id 1), and sends Stopped and Resumed events and the
\* CheckpointInfo event of a checkpoint that was hit; calls time out and
\* the connection may close.
CheckpointHit ==
  [responseType |-> CheckpointInfo, errorCode |-> Ok, requestId |-> AsyncId,
   body |-> writeUInt32LE(1)]

CheckpointBudget ==
  ~NotConnected => requestId < MaxCheckpointOps /\ WritesFlushed

NextCheckpoint ==
  \/ socket = 0 /\ sockets[1] = "none" /\ Connect(HostUndefined, Undefined)
  \/ \E s \in SocketIds : OnConnect(s)
  \/ \E s \in SocketIds : OnClose(s)
  \/ CheckpointBudget /\ SetBreakpoint(0)
  \/ \E id \in CheckpointIds : CheckpointBudget /\ ToggleCheckpoint(id, FALSE)
  \/ CheckpointBudget /\ DeleteBreakpoint(1)
  \/ \E c \in Slots : WriteCallback(c, FALSE)
  \/ \E c \in Slots : WritesFlushed /\ ResponseTimeout(c)
  \/ \E f \in AckFrames \cup EventFrames \cup {CheckpointHit} :
       WritesFlushed /\ HandleResponse(f)
  \/ \E c \in Slots : Resume(c)

SpecCheckpoint == Init /\ [][NextCheckpoint]_vars

\* ----------------------------------------------------------- SpecStray
\* One connection on which the caller sends getRegisters and
\* fire-and-forget commands.  The peer sends frames of any kind with any
\* request id up to MaxStrayId or the sentinel, whether a call waits for
\* them or not; calls time out and the connection may close.
StrayFrames ==
  [responseType : {RegisterInfo, CheckpointInfo, Stopped, Resumed},
   errorCode : {Ok, ObjectMissing},
   requestId : 1..MaxStrayId \cup {AsyncId},
   body : {<<>>}]

NextStray ==
  \/ socket = 0 /\ sockets[1] = "none" /\ Connect(HostUndefined, Undefined)
  \/ \E s \in SocketIds : OnConnect(s)
  \/ \E s \in SocketIds : OnClose(s)
  \/ \E e \in ExpectedTypes :
       requestId < MaxStraySends /\ ~NotConnected /\ SendCommand(e)
  \/ \E c \in Slots : WriteCallback(c, FALSE)
  \/ \E c \in Slots : ResponseTimeout(c)
  \/ \E f \in StrayFrames : HandleResponse(f)

SpecStray == Init /\ [][NextStray]_vars

\* ------------------------------------------------------- SpecReconnect
\* Two connections, one after the other.  On each the caller sends
\* getRegisters and the peer puts on the wire answers to the pending
\* requests and Stopped events; the socket delivers the bytes in chunks of
\* any length.  When the connection closes, the bytes not delivered yet
\* are lost with it.
ReconnectFrames ==
  [responseType : {RegisterInfo}, errorCode : {Ok},
   requestId : {pendingRequests[i].id : i \in DOMAIN pendingRequests},
   body : {<<>>}]
    \cup [responseType : {Stopped}, errorCode : {Ok},
          requestId : {AsyncId}, body : {<<>>}]

\* Nothing of a closed connection is on its way any more.
WireClosed ==
  /\ \A s \in SocketIds : sockets[s] # "open"
  /\ peer # NoPeer
  /\ wire' = <<>>
  /\ peer' = NoPeer
  /\ log' = <<>>
  /\ UNCHANGED <<responseBuffer, dispatched, checkpoints, socket, sockets,
                 connectCalls, disconnectCalls, state, requestId,
                 pendingRequests, calls, sendOrder>>

NextReconnect ==
  \/ socket = 0 /\ Connect(HostUndefined, Undefined)
  \/ \E s \in SocketIds : peer = NoPeer /\ OnConnect(s)
  \/ \E s \in SocketIds : sockets[s] = "open" /\ OnClose(s)
  \/ WireClosed
  \/ /\ requestId < MaxReconnectSends /\ ~NotConnected /\ WritesFlushed
     /\ SendCommand(RegisterInfo)
  \/ \E c \in Slots : WriteCallback(c, FALSE)
  \/ \E f \in ReconnectFrames :
       /\ Len(peer.frames) < MaxReconnectFrames
       /\ WritesFlushed /\ ~NotConnected
       /\ PeerSends(f)
  \/ \E n \in 1..Len(wire) : ~NotConnected /\ Deliver(n)

SpecReconnect == Init /\ [][NextReconnect]_vars

\* ============================================================== claims
\* A call of slot c is live: registered by sendCommand and not settled.
Live(c) == calls[c] # NoCall /\ calls[c].invoked = 0

\* Where slot c stands in the order of sending.
SentAt(c) == CHOOSE i \in DOMAIN sendOrder : sendOrder[i] = c

\* The entries of the table other than the one under id, and the calls
\* other than c, are what they were.
OthersKept(id, c) ==
  /\ MapDelete(pendingRequests', id) = MapDelete(pendingRequests, id)
  /\ \A d \in Slots \ {c} : calls'[d] = calls[d]

\* C1: after any interleaving of sendCommand, frames, response timeouts,
\* write failures and close events, the resolver/rejecter pair of every
\* call has been invoked at most once.
C1_InvokedAtMostOnce == \A c \in Slots : calls[c].invoked <= 1

\* C2: every call registered by sendCommand is settled once its response
\* timer has fired (the timer is the last resort that settles it), however
\* many calls are outstanding and whatever happened in between.
C2_SettledOnceTimerFired ==
  \A c \in Slots : calls[c].timer = "fired" => calls[c].invoked >= 1

\* C3: a frame whose request id is the id of a pending call settles exactly
\* that call, with that frame, whatever the frame's kind and the call's
\* expectedResponseType; this for every id nextRequestId produces.
C3_IdMatchSettles ==
  [][\A f \in WrapFrames :
       (HandleResponse(f) /\ MapHas(pendingRequests, f.requestId)) =>
         LET c == MapGet(pendingRequests, f.requestId).call IN
         /\ ~MapHas(pendingRequests', f.requestId)
         /\ calls'[c].invoked = 1
         /\ log'[Len(log')] = SettleLog(c, f)
         /\ OthersKept(f.requestId, c)]_vars

\* C4: a frame with the sentinel id 0xff and kind K settles the oldest-sent
\* pending call that expects K and no other call: later calls expecting K
\* and calls expecting another kind or none stay pending.
C4_AsyncSettlesOldest ==
  [][\A f \in WrapFrames :
       LET expecting == {c \in Slots : Live(c) /\ calls[c].expected = f.responseType}
       IN
       (HandleResponse(f) /\ f.requestId = AsyncId /\ expecting # {}) =>
         LET c == CHOOSE d \in expecting :
                    \A e \in expecting : SentAt(d) <= SentAt(e)
         IN
         /\ calls'[c].invoked = 1
         /\ \A d \in Slots \ {c} : calls'[d] = calls[d]
         /\ \A i \in DOMAIN pendingRequests :
              pendingRequests[i].call # c =>
                \E j \in DOMAIN pendingRequests' :
                  pendingRequests'[j] = pendingRequests[i]]_vars

\* C5: the close handler rejects every pending call with CONNECTION_CLOSED
\* and leaves the table empty, and no call it rejected is settled a second
\* time by a later timer, frame or write callback.
C5_CloseRejectsAllOnce ==
  [][/\ \A s \in SocketIds :
          OnClose(s) =>
            /\ pendingRequests' = <<>>
            /\ \A i \in DOMAIN pendingRequests :
                 calls'[pendingRequests[i].call].result =
                   makeError("CONNECTION_CLOSED", Ok)
     /\ \A c \in Slots :
          calls[c].result.code = "CONNECTION_CLOSED" =>
            calls'[c].invoked <= calls[c].invoked]_vars

\* C6: the response timer of a call affects that call only: when the call
\* is still pending it is removed and rejected with RESPONSE_TIMEOUT and
\* every other pending call stays; when the call has settled, the timer
\* changes nothing in the client's state.
C6_TimerAffectsOwnCallOnly ==
  [][\A c \in Slots :
       ResponseTimeout(c) =>
         IF calls[c].invoked = 0
           THEN /\ calls'[c].result = makeError("RESPONSE_TIMEOUT", Ok)
                /\ calls'[c].invoked = 1
                /\ ~MapHas(pendingRequests', calls[c].id)
                /\ OthersKept(calls[c].id, c)
           ELSE /\ pendingRequests' = pendingRequests
                /\ calls'[c].invoked = calls[c].invoked
                /\ \A d \in Slots \ {c} : calls'[d] = calls[d]]_vars

\* C7: when a call's response frame and its timeout both occur, the first
\* to remove the table entry decides: after the frame settled the call the
\* timer is a no-op; after the timer rejected it with RESPONSE_TIMEOUT a
\* frame with the call's id settles no call.
C7_FirstRemoverWins ==
  [][/\ \A c \in Slots :
          (ResponseTimeout(c) /\ calls[c].result.how = "resolved") =>
            /\ pendingRequests' = pendingRequests
            /\ \A d \in Slots : calls'[d].invoked = calls[d].invoked
     /\ \A f \in WrapFrames :
          (/\ HandleResponse(f)
           /\ \E c \in Slots :
                /\ calls[c].id = f.requestId
                /\ calls[c].result.code = "RESPONSE_TIMEOUT") =>
            /\ pendingRequests' = pendingRequests
            /\ \A d \in Slots : calls'[d].invoked = calls[d].invoked]_vars

\* C8: with several calls pending under distinct ids, a frame bearing the
\* id of one of them settles that call (resolved on status OK, rejected on
\* a peer error) and leaves every other pending call pending, in whatever
\* order the frames arrive.
C8_FramesSettleIndependently ==
  [][\A f \in WrapFrames :
       (/\ HandleResponse(f)
        /\ Len(pendingRequests) >= 2
        /\ MapHas(pendingRequests, f.requestId)) =>
         LET c == MapGet(pendingRequests, f.requestId).call IN
         /\ calls'[c].result =
              (IF f.errorCode = Ok THEN Resolved
               ELSE makeError("VICE_ERROR", f.errorCode))
         /\ \A i \in DOMAIN pendingRequests :
              pendingRequests[i].id # f.requestId =>
                /\ MapHas(pendingRequests', pendingRequests[i].id)
                /\ calls'[pendingRequests[i].call] =
                     calls[pendingRequests[i].call]]_vars

\* C9: no two live calls hold the same request id.
C9_LiveIdsUnique ==
  \A c, d \in Slots :
    (c # d /\ Live(c) /\ Live(d)) => calls[c].id # calls[d].id

\* Where the handleResponse run that ends in the next state did ev.
Positions(ev) == {i \in DOMAIN log' : log'[i].ev = ev}

\* The frame of the handleResponse run that ends in the next state, when
\* that run began with a state-change event (the sink is handed the frame).
EventFrame == log'[2].frame

IsEventRun ==
  /\ Len(log') >= 2
  /\ log'[1].ev \in {"running=false", "running=true"}
  /\ EventFrame.responseType \in {Stopped, Resumed}
  /\ HandleResponse(EventFrame)

\* C10: a Stopped (Resumed) frame sets running to false (true) and calls
\* onStopped (onResumed) once, both before the frame settles any pending
\* call; the frame is still matched against the pending calls.
C10_EventThenCorrelate ==
  [][IsEventRun =>
       LET f == EventFrame
           stop == f.responseType = Stopped
           set == Positions(IF stop THEN "running=false" ELSE "running=true")
           sink == Positions(IF stop THEN "onStopped" ELSE "onResumed")
           settle == Positions("resolve") \cup Positions("reject")
           byId == f.requestId # AsyncId /\ MapHas(pendingRequests, f.requestId)
           byKind ==
             /\ f.requestId = AsyncId
             /\ \E i \in DOMAIN pendingRequests :
                  pendingRequests[i].expectedResponseType = f.responseType
       IN
       /\ state'.running = ~stop
       /\ Cardinality(set) = 1
       /\ Cardinality(sink) = 1
       /\ \A i \in set, j \in sink : i < j
       /\ \A i \in set \cup sink, j \in settle : i < j
       /\ (byId \/ byKind) =>
            /\ Cardinality(settle) = 1
            /\ Len(pendingRequests') = Len(pendingRequests) - 1
            /\ \A j \in settle :
                 /\ log'[j].frame = f
                 /\ calls'[log'[j].call].invoked = calls[log'[j].call].invoked + 1]_vars

\* C10, witness: a Stopped or Resumed frame has just settled a pending call.
C10_Witness ==
  \E i, j \in DOMAIN log :
    /\ i < j
    /\ log[i].ev \in {"onStopped", "onResumed"}
    /\ log[j].ev \in {"resolve", "reject"}

\* C11: a frame matched to a pending call resolves the call when the
\* frame's status is OK and rejects it with VICE_ERROR_<status> otherwise;
\* the entry is deleted from the table before the call is settled.
C11_SettledByStatus ==
  \A j \in DOMAIN log :
    log[j].ev \in {"resolve", "reject"} =>
      LET c == log[j].call
          f == log[j].frame
      IN
      /\ j > 1
      /\ log[j - 1] = LogEntry("delete", c, NoFrame)
      /\ (log[j].ev = "resolve") <=> (f.errorCode = Ok)
      /\ calls[c].result =
           (IF f.errorCode = Ok THEN Resolved
            ELSE makeError("VICE_ERROR", f.errorCode))
      /\ \A i \in DOMAIN pendingRequests : pendingRequests[i].call # c

\* C11, witness: a matched frame with a status other than OK has just
\* rejected its call.
C11_Witness ==
  \E j \in DOMAIN log :
    /\ log[j].ev = "reject"
    /\ calls[log[j].call].result = makeError("VICE_ERROR", ObjectMissing)

\* C12: at most one socket opened by connect() is live at any time, and
\* while a socket is live (connecting or connected) the handle is held, so
\* that connect() is refused with ALREADY_CONNECTED and creates no socket.
C12_OneLiveSocket ==
  /\ Cardinality({s \in SocketIds : IsLive(s)}) <= 1
  /\ \A s \in SocketIds : IsLive(s) => socket # 0

\* C13: when a connecting socket gets an error, or its connect timeout
\* expires, connect() is rejected (CONNECTION_FAILED, CONNECTION_TIMEOUT),
\* the socket is destroyed, the handle is released and connected is false,
\* so that the next connect() is accepted.
C13_FailedConnectTornDown ==
  [][\A s \in SocketIds :
       /\ (OnError(s) /\ sockets[s] = "connecting") =>
            /\ connectCalls'[s].result = "CONNECTION_FAILED"
            /\ sockets'[s] \in {"destroyed", "closed"}
            /\ socket' = 0
            /\ ~state'.connected
       /\ ConnectTimeout(s) =>
            /\ connectCalls'[s].result = "CONNECTION_TIMEOUT"
            /\ sockets'[s] \in {"destroyed", "closed"}
            /\ socket' = 0
            /\ ~state'.connected]_vars

\* C14: once the close or the error event of an established connection has
\* been handled, connected is false and the handle is released: sendCommand
\* is refused with NOT_CONNECTED and connect() is not refused.
C14_EstablishedEndReleases ==
  [][\A s \in SocketIds :
       (sockets[s] = "open" /\ (OnClose(s) \/ OnError(s))) =>
         /\ ~state'.connected
         /\ socket' = 0
         /\ sockets'[s] \in {"destroyed", "closed"}]_vars

\* C14, witness: after the error event of an established connection a
\* sendCommand has been refused with NOT_CONNECTED.
C14_Witness ==
  /\ log = Throw("NOT_CONNECTED")
  /\ socket = 0
  /\ \E s \in SocketIds :
       sockets[s] = "destroyed" /\ connectCalls[s].result = "resolved"

\* C15: when the connect event of a socket fires, the connect() that made
\* the socket resolves, the state becomes connected and running with the
\* host and port passed (127.0.0.1 and 6502 when left out), and the connect
\* timeout is no longer armed.
C15_ConnectEventResolves ==
  [][\A s \in SocketIds :
       OnConnect(s) =>
         /\ connectCalls'[s].result = "resolved"
         /\ connectCalls'[s].timeout # "armed"
         /\ state' = [connected |-> TRUE, host |-> connectCalls[s].host,
                      port |-> connectCalls[s].port, running |-> TRUE]
         /\ connectCalls[s].host \in {DefaultHost, "c64.local"}
         /\ connectCalls[s].port \in {DefaultPort, 6510}]_vars

\* C16: disconnect() with no socket held returns at once and changes
\* nothing; with a socket held it does not resolve by itself: it resolves
\* in the step that handles the close event of that socket, after which
\* connected is false, the handle is released, the table is empty and every
\* call that was pending is rejected with CONNECTION_CLOSED.
C16_DisconnectResolvesOnClose ==
  [][/\ (socket = 0 /\ Disconnect) =>
          UNCHANGED <<socket, sockets, connectCalls, disconnectCalls, state,
                      requestId, pendingRequests, calls>>
     /\ \A s \in SocketIds :
          disconnectCalls'[s].resolved > disconnectCalls[s].resolved =>
            /\ OnClose(s)
            /\ disconnectCalls[s].waiting > 0
            /\ ~state'.connected
            /\ socket' = 0
            /\ pendingRequests' = <<>>
            /\ \A i \in DOMAIN pendingRequests :
                 calls'[pendingRequests[i].call].result =
                   makeError("CONNECTION_CLOSED", Ok)]_vars

\* C16, witness: a disconnect() has resolved on a close event that rejected
\* a pending call.
C16_Witness ==
  /\ \E s \in SocketIds :
       sockets[s] = "closed" /\ disconnectCalls[s].resolved > 0
  /\ \E c \in Slots : calls[c].result = makeError("CONNECTION_CLOSED", Ok)
  /\ ~state.connected
  /\ socket = 0

\* C17: sendCommand invoked with no socket held or with connected false is
\* refused with NOT_CONNECTED and changes neither the request id counter,
\* nor the table, nor the socket; it registers no call (no packet written,
\* no timer armed).
C17_NotConnectedChangesNothing ==
  [][\A e \in ExpectedTypes :
       ((socket = 0 \/ ~state.connected) /\ SendCommand(e)) =>
         /\ log' = Throw("NOT_CONNECTED")
         /\ UNCHANGED <<requestId, pendingRequests, socket, sockets, calls,
                        state>>]_vars

\* C17, witness: a sendCommand has been refused while a socket is held that
\* has not connected yet.
C17_Witness ==
  /\ log = Throw("NOT_CONNECTED")
  /\ socket # 0
  /\ ~state.connected
  /\ requestId = 0

\* An address of the 16-bit address space.
InRange(address) == 0 <= address /\ address <= MaxAddress

\* The step hands a packet to socket.write (each packet takes the next id).
Sent == requestId' # requestId

\* The step registers no call: no id taken, no entry, no packet, no timer.
NothingSent == UNCHANGED <<requestId, pendingRequests, calls, sendOrder>>

\* The step ends with operation op throwing a validation error with code.
Invalid(op, code) ==
  Len(log') = 2 /\ log'[1].ev = op /\ log'[2].ev = code

\* The step ends with operation op throwing some validation error.
FailsValidation(op) ==
  /\ Len(log') = 2
  /\ log'[1].ev = op
  /\ log'[2].ev \in {"INVALID_ADDRESS", "INVALID_RANGE", "INVALID_DATA"}

\* What a step of operation op looks like: op throws a validation error,
\* or its sendCommand is refused, or a packet is sent.
OperationStep(op) ==
  \/ FailsValidation(op)
  \/ Len(log') = 1 /\ log'[1].ev = "NOT_CONNECTED"
  \/ Sent

\* C18: readMemory(start, end) passes validation exactly when
\* 0 <= start <= end <= 0xFFFF; an address outside 0..0xFFFF is rejected
\* with INVALID_ADDRESS, a start above the end with INVALID_RANGE; a
\* rejected call sends nothing, and a call that sends has passed validation.
C18_ReadMemoryValidation ==
  [][OperationStep("readMemory") =>
     \A a, b \in Addresses :
       ReadMemory(a, b) =>
         /\ ~FailsValidation("readMemory") <=> (0 <= a /\ a <= b /\ b <= MaxAddress)
         /\ (~InRange(a) \/ ~InRange(b)) => Invalid("readMemory", "INVALID_ADDRESS")
         /\ (InRange(a) /\ InRange(b) /\ a > b) =>
              Invalid("readMemory", "INVALID_RANGE")
         /\ FailsValidation("readMemory") => NothingSent /\ ~Sent
         /\ Sent => (0 <= a /\ a <= b /\ b <= MaxAddress)]_vars

\* C18, witness: a connected client has refused a readMemory whose start is
\* above its end.
C18_Witness ==
  /\ log = <<LogEntry("readMemory", 0, NoFrame)>> \o Throw("INVALID_RANGE")
  /\ state.connected

\* The three checks of writeMemory, as the claim words them.
WriteMemoryRejections(a, n) ==
  /\ ~InRange(a) => Invalid("writeMemory", "INVALID_ADDRESS")
  /\ (InRange(a) /\ n = 0) => Invalid("writeMemory", "INVALID_DATA")
  /\ (InRange(a) /\ n > 0 /\ a + n > MaxAddress + 1) =>
       Invalid("writeMemory", "INVALID_RANGE")
  /\ FailsValidation("writeMemory") => NothingSent /\ ~Sent

\* C19, as claimed: writeMemory(addr, bytes) is rejected before any I/O
\* when addr is outside 0..0xFFFF, when bytes is empty or when addr + len
\* exceeds 0x10000, and sends a request exactly when none of these holds.
C19_WriteMemorySendsIffValid ==
  [][OperationStep("writeMemory") =>
     \A a \in Addresses, n \in Lengths :
       WriteMemory(a, n) =>
         /\ WriteMemoryRejections(a, n)
         /\ Sent <=> (InRange(a) /\ n > 0 /\ a + n <= MaxAddress + 1)]_vars

\* C19, amended: the three rejections as claimed; writeMemory sends a
\* request exactly when none of them applies and the client is connected,
\* and with valid arguments on a client that is not connected it is
\* refused with NOT_CONNECTED and sends nothing.
C19_WriteMemorySendsIffValidAndConnected ==
  [][OperationStep("writeMemory") =>
     \A a \in Addresses, n \in Lengths :
       WriteMemory(a, n) =>
         /\ WriteMemoryRejections(a, n)
         /\ Sent <=> /\ InRange(a) /\ n > 0 /\ a + n <= MaxAddress + 1
                     /\ socket # 0 /\ state.connected
         /\ (/\ InRange(a) /\ n > 0 /\ a + n <= MaxAddress + 1
             /\ (socket = 0 \/ ~state.connected)) =>
              log' = Throw("NOT_CONNECTED") /\ NothingSent]_vars

\* C19, witness: a connected client has refused a writeMemory of no bytes.
C19_Witness ==
  /\ log = <<LogEntry("writeMemory", 0, NoFrame)>> \o Throw("INVALID_DATA")
  /\ state.connected

\* C20: a validation failure of readMemory, writeMemory, setBreakpoint or
\* setWatchpoint is reported connected or not, and leaves the request id
\* counter, the pending table, the checkpoint map and the socket as they
\* were.
C20_ValidationFailureChangesNothing ==
  [][LET Unchanged ==
           UNCHANGED <<requestId, pendingRequests, checkpoints, socket,
                       sockets, calls, state>>
     IN
     /\ (/\ OperationStep("readMemory")
         /\ \E a, b \in Addresses :
              ~(InRange(a) /\ InRange(b) /\ a <= b) /\ ReadMemory(a, b)) =>
          FailsValidation("readMemory") /\ Unchanged
     /\ (/\ OperationStep("writeMemory")
         /\ \E a \in Addresses, n \in Lengths :
              /\ ~(InRange(a) /\ n > 0 /\ a + n <= MaxAddress + 1)
              /\ WriteMemory(a, n)) =>
          FailsValidation("writeMemory") /\ Unchanged
     /\ (/\ OperationStep("setBreakpoint")
         /\ \E a \in Addresses : ~InRange(a) /\ SetBreakpoint(a)) =>
          FailsValidation("setBreakpoint") /\ Unchanged
     /\ (/\ OperationStep("setWatchpoint")
         /\ \E a, b \in Addresses, t \in WatchTypes :
              /\ ~(InRange(a) /\ InRange(b) /\ a <= b)
              /\ SetWatchpoint(a, b, t)) =>
          FailsValidation("setWatchpoint") /\ Unchanged]_vars

\* C20, witness: a setWatchpoint has failed validation on a connected
\* client that tracks a checkpoint.
C20_Witness ==
  /\ Len(log) = 2
  /\ log[1].ev = "setWatchpoint"
  /\ log[2].ev \in {"INVALID_ADDRESS", "INVALID_RANGE"}
  /\ checkpoints # <<>>
  /\ state.connected

\* The frames handleData dispatches when bytes arrive as one chunk on an
\* empty buffer.
OneChunk(bytes) ==
  ProcessPackets(
    [state |-> state, pendingRequests |-> pendingRequests, calls |-> calls,
     dispatched |-> <<>>, log |-> <<>>],
    bytes).st.dispatched

\* The chunk of the handleData run the log is of.
LastChunk == log[1].frame.body

\* C21: the bytes of one response frame, fed to handleData in chunks cut at
\* any place (inside the 9-byte header too), dispatch nothing until the
\* last byte has arrived and then exactly one frame, the frame dispatched
\* when the same bytes arrive as one chunk, with the kind, status, request
\* id and body the peer sent.
C21_SplitFrameDispatchedOnce ==
  (peer.garbage = <<>> /\ Len(peer.frames) = 1) =>
    LET f == peer.frames[1] IN
    IF wire = <<>>
      THEN /\ dispatched = OneChunk(ResponsePacket(f))
           /\ dispatched = <<f>>
           /\ responseBuffer = <<>>
      ELSE dispatched = <<>>

\* C21, witness: a frame with a body has been dispatched by the run on its
\* second part, the first part having ended inside the header.
C21_Witness ==
  /\ peer.garbage = <<>>
  /\ Len(peer.frames) = 1
  /\ peer.frames[1].body # <<>>
  /\ wire = <<>>
  /\ dispatched = peer.frames
  /\ Len(log) >= 2
  /\ log[1].ev = "data"
  /\ Len(LastChunk) < Len(ResponsePacket(peer.frames[1]))
  /\ Len(LastChunk) > Len(peer.frames[1].body) + 1

\* The bytes of a sequence of frames, back to back.
RECURSIVE Bytes(_)
Bytes(frames) ==
  IF frames = <<>> THEN <<>>
  ELSE ResponsePacket(Head(frames)) \o Bytes(Tail(frames))

\* The frames the handleData run of log l passed to handleResponse, in the
\* order of the calls.
DispatchedBy(l) ==
  LET entries == SelectSeq(l, LAMBDA e : e.ev = "handleResponse")
  IN [i \in DOMAIN entries |-> entries[i].frame]

\* How many of frames, from the first on, are complete within n bytes.
Complete(frames, n) ==
  CHOOSE k \in 0..Len(frames) :
    /\ Len(Bytes(SubSeq(frames, 1, k))) <= n
    /\ k < Len(frames) => Len(Bytes(SubSeq(frames, 1, k + 1))) > n

\* The next state ends a handleData run.
IsHandleData == Len(log') >= 1 /\ log'[1].ev = "data"

\* C22: one handleData call on a chunk that begins with a frame and holds
\* several frames back to back passes every complete frame to
\* handleResponse, in stream order, before it returns, and keeps in the
\* buffer exactly the bytes after the last complete frame (the incomplete
\* frame at the end, if any).
C22_AllCompleteFramesDispatched ==
  [][(IsHandleData /\ peer.garbage = <<>> /\ responseBuffer = <<>>) =>
       LET data == log'[1].frame.body
           ahead == SubSeq(peer.frames, Len(dispatched) + 1, Len(peer.frames))
           k == Complete(ahead, Len(data))
           complete == SubSeq(ahead, 1, k)
       IN
       /\ DispatchedBy(log') = complete
       /\ dispatched' = dispatched \o complete
       /\ responseBuffer' = SubSeq(data, Len(Bytes(complete)) + 1, Len(data))
       /\ k < Len(ahead) =>
            /\ Len(responseBuffer') < Len(ResponsePacket(ahead[k + 1]))
            /\ responseBuffer' =
                 SubSeq(ResponsePacket(ahead[k + 1]), 1, Len(responseBuffer'))
       /\ k = Len(ahead) => responseBuffer' = <<>>]_vars

\* C22, witness: a handleData run has dispatched two frames of one chunk
\* and kept the beginning of a third.
C22_Witness ==
  /\ peer.garbage = <<>>
  /\ Len(log) >= 1
  /\ log[1].ev = "data"
  /\ Len(DispatchedBy(log)) = 2
  /\ dispatched = DispatchedBy(log)
  /\ Len(LastChunk) > Len(Bytes(dispatched))
  /\ responseBuffer # <<>>

\* The peer has sent one garbage byte and then one frame, and every byte
\* has been delivered.
GarbageThenFrameFed ==
  Len(peer.garbage) = 1 /\ Len(peer.frames) = 1 /\ wire = <<>>

\* C23 as stated: one garbage byte followed by a valid frame dispatches
\* exactly one frame, the valid one, whatever the garbage byte.
C23_GarbageByteDropped ==
  GarbageThenFrameFed => dispatched = peer.frames

\* C23: one garbage byte other than STX followed by a valid frame
\* dispatches exactly one frame, the valid one, and leaves the buffer
\* empty; nothing is dispatched before the frame is complete.  A garbage
\* byte equal to STX is taken for the start of a header: the frame is not
\* dispatched.
C23_NonStxGarbageByteDropped ==
  /\ (Len(peer.garbage) = 1 /\ Len(peer.frames) = 1
        /\ peer.garbage[1] # STX) =>
       IF wire = <<>>
         THEN dispatched = peer.frames /\ responseBuffer = <<>>
         ELSE dispatched = <<>>
  /\ (GarbageThenFrameFed /\ peer.garbage[1] = STX) =>
       dispatched # peer.frames

\* C23, witness: a handleData run has skipped the garbage byte and
\* dispatched the frame behind it.
C23_Witness ==
  /\ GarbageThenFrameFed
  /\ peer.garbage[1] # STX
  /\ dispatched = peer.frames
  /\ \E i \in DOMAIN log :
       log[i].ev = "skip" /\ log[i].frame.body = peer.garbage

\* The packet the step hands to socket.write, and its parts in the layout
\* sendCommand writes: the request id at offset 6, the command at offset
\* 7, the body from offset 8.
WrittenPacket == log'[1].frame.body

WrittenBody == subarray(WrittenPacket, 8, Len(WrittenPacket))

\* The command of the operation whose call the step registers.
WrittenCommand ==
  LET c == sendOrder'[Len(sendOrder')]
      op == calls'[c].then.op
  IN IF op = "readMemory" THEN Command.MemoryGet
     ELSE IF op = "writeMemory" THEN Command.MemorySet
     ELSE Command.CheckpointSet

\* C24 as stated: decoding the bytes sendCommand has encoded with
\* handleData yields one frame that carries the original command code,
\* request id and body.
C24_RequestRoundTrip ==
  [][Sent =>
       LET decoded == OneChunk(WrittenPacket) IN
       /\ Len(decoded) = 1
       /\ decoded[1].responseType = WrittenCommand
       /\ decoded[1].requestId = requestId'
       /\ decoded[1].body = WrittenBody]_vars

\* C24: sendCommand writes STX, the API version, the length of the body in
\* 4 bytes, the request id, the command and the body: an 8-byte header.
\* handleData reads a 9-byte header (type, status and request id at
\* offsets 6, 7 and 8), so from the bytes of one request it dispatches no
\* frame and keeps them all in the buffer: it waits for one byte more, and
\* given that byte it dispatches a frame whose type is the request id,
\* whose status is the command and whose request id is the first byte of
\* the request's body.
C24_RequestIsNoResponse ==
  [][Sent =>
       LET p == WrittenPacket
           run == ProcessPackets(
                    [state |-> state, pendingRequests |-> pendingRequests,
                     calls |-> calls, dispatched |-> <<>>, log |-> <<>>], p)
           padded == OneChunk(p \o <<0>>)
       IN
       /\ log'[1].ev = "write"
       /\ Len(p) = 8 + Len(WrittenBody)
       /\ p[1] = STX /\ p[2] = API_VERSION
       /\ readUInt32LE(p, 2) = Len(WrittenBody)
       /\ p[7] = requestId'
       /\ p[8] = WrittenCommand
       /\ run.st.dispatched = <<>>
       /\ run.responseBuffer = p
       /\ Len(padded) = 1
       /\ padded[1].responseType = requestId'
       /\ padded[1].errorCode = WrittenCommand
       /\ padded[1].requestId = (p \o <<0>>)[9]]_vars

\* C24, witness: a request with a body has been written.
C24_Witness ==
  /\ Len(log) = 1
  /\ log[1].ev = "write"
  /\ Len(log[1].frame.body) > 8
  /\ requestId >= 1

\* The frames of fs that answer the call with request id: those bearing
\* the id (the peer of SpecCodec sends no unsolicited frame of the kind a
\* call waits for).
Answers(fs, id) == {i \in DOMAIN fs : fs[i].requestId = id}

\* C25: the frames handleData has passed to handleResponse are, at every
\* moment and for every chunking, the first frames of the byte stream in
\* stream order; a call is settled exactly when the frame answering it has
\* been dispatched, and within one handleData run each call is settled
\* during the dispatch of its frame, before the next frame is dispatched.
C25_DispatchedInStreamOrder ==
  peer.garbage = <<>> =>
    /\ Len(dispatched) <= Len(peer.frames)
    /\ dispatched = SubSeq(peer.frames, 1, Len(dispatched))
    /\ \A c \in Slots :
         calls[c] # NoCall =>
           (calls[c].invoked >= 1 <=> Answers(dispatched, calls[c].id) # {})
    /\ \A j \in DOMAIN log :
         log[j].ev \in {"resolve", "reject"} =>
           \E i \in 1..(j - 1) :
             /\ log[i] = LogEntry("handleResponse", 0, log[j].frame)
             /\ \A h \in (i + 1)..(j - 1) : log[h].ev # "handleResponse"

\* C25, witness: two calls have been settled by two frames that arrived in
\* the order opposite to the requests, the second frame in a later chunk
\* than the first.
C25_Witness ==
  /\ peer.garbage = <<>>
  /\ Len(dispatched) >= 2
  /\ dispatched[1].requestId = 2
  /\ dispatched[2].requestId = 1
  /\ \A c \in Slots : calls[c].invoked = 1
  /\ Len(DispatchedBy(log)) = 1

\* C26: on a connected client deleteBreakpoint(id) for an id that is not in
\* the checkpoint map writes a CheckpointDelete packet whose body is the id
\* (4 bytes, little-endian) and registers the call, raising nothing; when
\* the call resolved, the code after the await leaves the map as it was and
\* raises nothing.
AcknowledgedDelete(c) ==
  /\ calls[c].then.op = "deleteBreakpoint"
  /\ calls[c].invoked >= 1
  /\ calls[c].result = Resolved

C27_SetThenDeleteLeavesNoEntry ==
  [][\A c \in Slots :
       (AcknowledgedDelete(c) /\ Resume(c))
         => /\ ~MapHas(checkpoints', calls[c].then.checkpointId)
            /\ \A i \in DOMAIN checkpoints' :
                 checkpoints'[i] \in {checkpoints[j] : j \in DOMAIN checkpoints}
            /\ (Len(checkpoints) = 1
                /\ MapHas(checkpoints, calls[c].then.checkpointId))
                 => checkpoints' = <<>>]_vars

\* The watchpoint set on 0xD020 was confirmed with id 1 and is the only
\* checkpoint; deleteBreakpoint(1) was sent and acknowledged.
C27_Witness ==
  \E c \in Slots :
    /\ AcknowledgedDelete(c)
    /\ calls[c].then.checkpointId = 1
    /\ Len(checkpoints) = 1
    /\ checkpoints[1].id = 1
    /\ checkpoints[1].startAddress = 53280
    /\ checkpoints[1].type = "store"

\* C28: the code after the await of a resolved continue() leaves
\* state.running true and that of a resolved step() leaves it false; the
\* step that sends either request, the step that rejects its call (error
\* status from the peer, response timeout, close of the connection), the
\* code after the await of the rejected call and the call refused with
\* NOT_CONNECTED all leave state.running as it was.
RunControl(c) == calls[c].then.op \in {"continue", "step"}

C28_RunningFollowsAcknowledgement ==
  [][/\ \A c \in Slots :
          (RunControl(c) /\ calls'[c].then = NoContinuation /\ Resume(c))
            => state'.running =
                 IF calls[c].result # Resolved THEN state.running
                 ELSE calls[c].then.op = "continue"
     /\ \A c \in Slots :
          (/\ RunControl(c)
           /\ calls[c].result = Unsettled
           /\ calls'[c].result.how = "rejected")
            => state'.running = state.running
     /\ (log' # <<>> /\ (Continue \/ Step(1, FALSE)))
          => /\ state'.running = state.running
             /\ NotConnected => log' = Throw("NOT_CONNECTED") /\ calls' = calls
    ]_vars

\* A continue() was acknowledged while state.running is false and a step()
\* was rejected with the peer's error status; neither has run its code
\* after the await yet.
C28_Witness ==
  \E c, d \in Slots :
    /\ calls[c].then.op = "continue"
    /\ calls[c].result = Resolved
    /\ ~state.running
    /\ calls[d].then.op = "step"
    /\ calls[d].result = makeError("VICE_ERROR", ObjectMissing)

\* C29: when readMemory's request resolved with a body made of a 2-byte
\* little-endian length L and at least L further bytes, readMemory returns
\* the L bytes that follow the length, in order; when the body is the
\* peer's answer of n = endAddress - startAddress + 1 bytes (the length
\* field, then the n bytes), readMemory returns exactly those n bytes.
ReadAcknowledged(c) ==
  /\ calls[c].then.op = "readMemory"
  /\ calls[c].invoked >= 1
  /\ calls[c].result = Resolved

Returned(c, bytes) ==
  <<LogEntry("readMemory returns", c, [NoFrame EXCEPT !.body = bytes])>>

C29_ReadMemoryReturnsTheBytes ==
  [][\A c \in Slots :
       (ReadAcknowledged(c) /\ Resume(c))
         => LET body == calls[c].body
                n == calls[c].then.endAddress - calls[c].then.startAddress + 1
            IN /\ (Len(body) >= 2 /\ Len(body) - 2 >= readUInt16LE(body, 0))
                    => log' = Returned(c,
                                SubSeq(body, 3, 2 + readUInt16LE(body, 0)))
               /\ (/\ Len(body) = 2 + n
                   /\ body = MemoryGetBody(n, SubSeq(body, 3, 2 + n)))
                    => log' = Returned(c, SubSeq(body, 3, 2 + n))]_vars

\* C30: the id nextRequestId last handed out is never the asynchronous
\* sentinel 0xff, so no pending request is registered under 0xff and a frame
\* bearing the id of a pending request is never one that handleResponse
\* treats as unsolicited.
C30_SentinelNeverHandedOut ==
  /\ requestId # AsyncId
  /\ \A i \in DOMAIN pendingRequests : pendingRequests[i].id # AsyncId

\* C31: while a newer socket is held, no event (connect, error, close) of a
\* socket whose connect() failed or timed out releases the handle, changes
\* connected or touches the pending calls.
Abandoned(s) ==
  connectCalls[s].result \in {"CONNECTION_FAILED", "CONNECTION_TIMEOUT"}

C31_AbandonedSocketIsInert ==
  [][\A s \in SocketIds :
       (/\ Abandoned(s)
        /\ socket \notin {0, s}
        /\ sockets' # sockets
        /\ OnClose(s) \/ OnError(s) \/ OnConnect(s))
         => /\ socket' = socket
            /\ state'.connected = state.connected
            /\ calls' = calls
            /\ pendingRequests' = pendingRequests]_vars

\* C32: whenever connected is true a socket handle is held, so that
\* getState().connected and sendCommand's check agree.
C32_ConnectedImpliesHandle ==
  state.connected => socket # 0

\* C33: when the code after the await of an acknowledged continue() or
\* step() has run, running is what the last Stopped or Resumed frame
\* handled after the acknowledgement frame says (false after Stopped, true
\* after Resumed), if there is one.
AckIndex(c) ==
  CHOOSE i \in DOMAIN dispatched :
    /\ dispatched[i].requestId = calls[c].id
    /\ \A j \in DOMAIN dispatched :
         dispatched[j].requestId = calls[c].id => j <= i

EventsAfterAck(c) ==
  {j \in DOMAIN dispatched :
     /\ j > AckIndex(c)
     /\ dispatched[j].responseType \in {Stopped, Resumed}}

C33_RunningReflectsLatestEvent ==
  [][\A c \in Slots :
       (/\ RunControl(c)
        /\ calls[c].result = Resolved
        /\ calls'[c].then = NoContinuation
        /\ Resume(c)
        /\ EventsAfterAck(c) # {})
         => LET last == CHOOSE j \in EventsAfterAck(c) :
                          \A k \in EventsAfterAck(c) : k <= j
            IN state'.running = (dispatched[last].responseType = Resumed)]_vars

\* C34: on every connection, the first one and the one after a reconnect,
\* the data event that brings the whole first frame the peer sent on that
\* connection, and nothing else, passes exactly that frame to
\* handleResponse and leaves the buffer empty, whatever the previous
\* connection left undecoded.
C34_ReconnectDecodesAsFresh ==
  [][(/\ IsHandleData
      /\ peer.frames # <<>>
      /\ wire = Bytes(peer.frames)
      /\ log'[1].frame.body = ResponsePacket(peer.frames[1]))
       => /\ DispatchedBy(log') = <<peer.frames[1]>>
          /\ DispatchedBy(log') = OneChunk(ResponsePacket(peer.frames[1]))
          /\ responseBuffer' = <<>>]_vars

\* C35: the checkpoint map changes only in the code after the await of a
\* resolved checkpoint operation.  There a set stores the entry under the
\* id read from the response body, a toggle writes enabled of the entry the
\* map holds under its id and adds no entry, a delete removes the entry
\* and nothing else.  Every other step leaves the map as it is: sending,
\* the handling of any frame (acknowledgement, error, Stopped, Resumed, the
\* CheckpointInfo of a checkpoint hit), a timeout, a close, and the code
\* after the await of a rejected operation.
Keys(m) == {m[i].id : i \in DOMAIN m}

CheckpointOps ==
  {"setBreakpoint", "setWatchpoint", "toggleCheckpoint", "deleteBreakpoint"}

AcknowledgedOp(c) ==
  /\ calls[c].then.op \in CheckpointOps
  /\ calls[c].invoked >= 1
  /\ calls[c].result = Resolved
  /\ calls'[c].then = NoContinuation

WriteBegun(c) == calls[c].write \in {"inflight", "done"}

Allocates ==
  /\ Len(log') = 1
  /\ log'[1].ev = "write"

C37_IdsCountModulo256 ==
  [][/\ requestId' # requestId => Allocates
     /\ Allocates =>
          /\ requestId' = (requestId + 1) % 256
          /\ WrittenPacket[7] = requestId'
          /\ MapHas(pendingRequests', requestId')
          /\ \E c \in Slots :
               calls'[c].id = requestId' /\ calls'[c].write = "inflight"]_vars

\* On the second connection, with the call of id 1 still pending, the
\* counter has wrapped: the request just written got the id 0.
C37_Witness ==
  /\ sockets[1] = "closed"
  /\ sockets[2] = "open"
  /\ requestId = 0
  /\ MapHas(pendingRequests, 1)
  /\ MapHas(pendingRequests, 0)
  /\ Len(log) = 1
  /\ log[1].ev = "write"

\* C38: handling a frame that matches no pending call (its id is not the
\* sentinel and not in the table, or it is the sentinel and no pending call
\* expects the frame's kind) settles no call, invokes no resolve or reject
\* and leaves the table and everything else as it is, except running,
\* which a Stopped frame sets to false and a Resumed frame to true.
Unmatched(f) ==
  IF f.requestId = AsyncId
    THEN \A i \in DOMAIN pendingRequests :
           pendingRequests[i].expectedResponseType # f.responseType
    ELSE \A i \in DOMAIN pendingRequests : pendingRequests[i].id # f.requestId

C38_UnmatchedFrameSettlesNothing ==
  [][\A f \in StrayFrames :
       (Unmatched(f) /\ HandleResponse(f)) =>
         /\ calls' = calls
         /\ pendingRequests' = pendingRequests
         /\ \A j \in DOMAIN log' : log'[j].ev \notin {"resolve", "reject", "delete"}
         /\ state' = [state EXCEPT !.running =
                        IF f.responseType = Stopped THEN FALSE
                        ELSE IF f.responseType = Resumed THEN TRUE
                        ELSE @]
         /\ UNCHANGED <<codec, checkpoints, socket, sockets, connectCalls,
                        disconnectCalls, requestId, sendOrder>>]_vars

\* A Stopped frame bearing an id that no pending call has was just handled
\* while a call is pending: running is false, the pending call is untouched.
C38_Witness ==
  /\ Len(log) = 2
  /\ log[2].ev = "onStopped"
  /\ log[2].frame.requestId # AsyncId
  /\ \A i \in DOMAIN pendingRequests :
       pendingRequests[i].id # log[2].frame.requestId
  /\ pendingRequests # <<>>
  /\ ~state.running

\* C39: for every payload length n that writeMemory accepts
\* (1 <= n <= 0x10000 - addr), the request body is 5 + n bytes long, the
\* length field at offset 4 is n - 1 and the n payload bytes follow it.
RequestBody(packet) == SubSeq(packet, 9, Len(packet))

C39_LengthFieldIsLengthMinusOne ==
  [][\A a \in WriteAddresses, n \in WriteLengths :
       (/\ Sent
        /\ 1 <= n /\ n <= MaxAddress + 1 - a
        /\ WriteMemory(a, n)) =>
         LET body == RequestBody(log'[1].frame.body) IN
         /\ Len(body) = 5 + n
         /\ body[5] = n - 1
         /\ SubSeq(body, 6, 5 + n) = alloc(n)]_vars

\* C40: handleData terminates: every iteration of its loop that does not
\* leave the loop takes bytes off the front of the stream buffer, one byte
\* other than STX when it resyncs and a whole frame (header and declared
\* body) when it dispatches, so there are at most as many iterations as
\* bytes; a frame is dispatched only when the bytes buffered hold all of
\* its declared body, and the loop is left with fewer than a header's bytes
\* or with a frame whose body has not arrived in full.
Iterations(l) == SelectSeq(l, LAMBDA e : e.ev \in {"skip", "handleResponse"})

Taken(e) == IF e.ev = "skip" THEN 1 ELSE HeaderLength + Len(e.frame.body)

\* The bytes taken by the iterations before the k-th one.
TakenBefore(its) ==
  LET before[k \in 1..Len(its) + 1] ==
        IF k = 1 THEN 0 ELSE before[k - 1] + Taken(its[k - 1])
  IN before

C40_LoopConsumesTheBuffer ==
  [][(log' # <<>> /\ log'[1].ev = "data") =>
       LET buffer == responseBuffer \o log'[1].frame.body
           its == Iterations(log')
           before == TakenBefore(its)
           rest == Len(buffer) - before[Len(its) + 1]
       IN
       /\ Len(its) <= Len(buffer)
       /\ \A k \in DOMAIN its :
            LET o == before[k]
                f == its[k].frame
            IN
            /\ Len(buffer) - o >= HeaderLength
            /\ IF its[k].ev = "skip"
                 THEN buffer[o + 1] # STX /\ f.body = <<buffer[o + 1]>>
                 ELSE /\ buffer[o + 1] = STX
                      /\ readUInt32LE(buffer, o + 2) = Len(f.body)
                      /\ o + HeaderLength + Len(f.body) <= Len(buffer)
                      /\ f.body = SubSeq(buffer, o + HeaderLength + 1,
                                         o + HeaderLength + Len(f.body))
       /\ rest >= 0
       /\ responseBuffer' = SubSeq(buffer, Len(buffer) - rest + 1, Len(buffer))
       /\ \/ rest < HeaderLength
          \/ /\ responseBuffer'[1] = STX
             /\ rest < HeaderLength + readUInt32LE(responseBuffer', 2)]_vars

\* One data event has dropped a byte and dispatched a frame and has left
\* the header of a frame whose body has not arrived in the buffer.
C40_Witness ==
  /\ log # <<>>
  /\ log[1].ev = "data"
  /\ \E i, j \in DOMAIN log : log[i].ev = "skip" /\ log[j].ev = "handleResponse"
  /\ Len(responseBuffer) >= HeaderLength

====
